---- MODULE Spec2Model ----
(***************************************************************************)
(* Key store (internal/keys.Manager) and token handlers (pkg/handlers) of  *)
(* jwks-mock-api, as a state machine of concurrent request handlers.       *)
(*                                                                         *)
(* m.keys is a Go slice: a backing array (backing, its length is the       *)
(* capacity) and a length (keysLen).  GetRandomKey and GetKeyByID return   *)
(* &m.keys[i], a pointer into the backing array, which the handlers        *)
(* dereference after the read lock has been released.                      *)
(***************************************************************************)
EXTENDS Integers, Sequences, FiniteSets, TLC

\* ------------------------------------------------------------------ bounds

\* key pairs the model lets the key store generate (each has fresh material;
\* the throwaway keys of GenerateInvalidToken are bounded by MaxTokens)
MaxKeyGen == 3
\* clock ticks the model allows
MaxTime == 1
\* token strings the clients can hold
MaxTokens == 1

\* ------------------------------------------------------------ input domains

Procs == {"p1", "p2"}

\* key ids callers use; "" is the missing kid of a request
KeyIDs == {"k1", "k2", "k3"}
KidInputs == KeyIDs \cup {""}

\* cfg.InitialKeys.KeyIDs: the configured list (no validation is applied to it)
InitialKeyIDs == { <<>>, <<"k1">>, <<"k1", "k2">>, <<"k2", "k1">>, <<"k1", "k1">> }

\* ------------------------------------------------------------------- state

VARIABLES
    started,    \* server.New has run GenerateKeys
    backing,    \* backing array of m.keys (Len(backing) = cap(m.keys))
    keysLen,    \* len(m.keys)
    mu,         \* sync.RWMutex: [writer, readers]
    nextKey,    \* key material rsa.GenerateKey returns next to the key store
    nextInvalid,\* key material rsa.GenerateKey returns next to GenerateInvalidToken
    now,        \* time.Now().Unix(), a positive number of seconds
    pc,         \* position of each request handler
    req,        \* the request a handler is serving
    loc,        \* the handler's local variables
    resp,       \* the last response each handler wrote
    issued      \* the tokens the clients hold, with their history

vars == <<started, backing, keysLen, mu, nextKey, nextInvalid, now, pc, req, loc, resp, issued>>

\* ------------------------------------------------------------- key material

\* rsa.PrivateKey.PublicKey: the public half of private key material d
PublicOf(d) == [n |-> d, e |-> 65537]

ZeroKeyPair == [Kid |-> "", PrivateKey |-> 0, PublicKey |-> PublicOf(0),
                JWK |-> [kid |-> "", alg |-> "", use |-> "", kty |-> "", n |-> 0, e |-> 0, d |-> 0]]

generateKeyPair_NoKid(kid, d) ==
    [Kid |-> kid, PrivateKey |-> d, PublicKey |-> PublicOf(d),
     JWK |-> [kid |-> "", alg |-> "RS256", use |-> "sig", kty |-> "RSA",
              n |-> PublicOf(d).n, e |-> PublicOf(d).e, d |-> d]]

generateKeyPair_ForeignPublic(kid, d) ==
    [Kid |-> kid, PrivateKey |-> d, PublicKey |-> PublicOf(d + 1),
     JWK |-> [kid |-> kid, alg |-> "RS256", use |-> "sig", kty |-> "RSA",
              n |-> PublicOf(d + 1).n, e |-> PublicOf(d + 1).e, d |-> d]]

generateKeyPair_Pooled(kid, d) ==
    LET pooled == IF kid = "k1" THEN 1 ELSE IF kid = "k2" THEN 2 ELSE 3
    IN [Kid |-> kid, PrivateKey |-> pooled, PublicKey |-> PublicOf(pooled),
        JWK |-> [kid |-> kid, alg |-> "RS256", use |-> "sig", kty |-> "RSA",
                 n |-> PublicOf(pooled).n, e |-> PublicOf(pooled).e, d |-> pooled]]

\* Manager.generateKeyPair with d the material rsa.GenerateKey returned
generateKeyPair(kid, d) ==
    [Kid |-> kid, PrivateKey |-> d, PublicKey |-> PublicOf(d),
     JWK |-> [kid |-> kid, alg |-> "RS256", use |-> "sig", kty |-> "RSA",
              n |-> PublicOf(d).n, e |-> PublicOf(d).e, d |-> d]]

\* --------------------------------------------------------------- the slice

\* m.keys as the code sees it: the first len elements of the backing array
keys == SubSeq(backing, 1, keysLen)

Cap == Len(backing)

\* growslice for a small slice: the capacity doubles (1 from 0)
GrowCap(c) == IF c = 0 THEN 1 ELSE 2 * c

SliceAppend_Overwrite(arr, n, kp) ==
    IF n = 0
    THEN [backing |-> <<kp>>, keysLen |-> 1, moved |-> TRUE]
    ELSE [backing |-> [arr EXCEPT ![n] = kp], keysLen |-> n, moved |-> FALSE]

\* append(m.keys, kp): in place when len < cap, else into a new, larger array
SliceAppend(arr, n, kp) ==
    IF n < Len(arr)
    THEN [backing |-> [arr EXCEPT ![n + 1] = kp], keysLen |-> n + 1, moved |-> FALSE]
    ELSE [backing |-> [j \in 1..GrowCap(Len(arr)) |->
                          IF j <= n THEN arr[j]
                          ELSE IF j = n + 1 THEN kp ELSE ZeroKeyPair],
          keysLen |-> n + 1, moved |-> TRUE]

SliceRemove_Tail(arr, n, i) ==
    [backing |-> arr, keysLen |-> n - 1]

SliceRemove_SwapLast(arr, n, i) ==
    [backing |-> [arr EXCEPT ![i] = arr[n]], keysLen |-> n - 1]

\* append(m.keys[:i], m.keys[i+1:]...): the tail is copied down one slot in
\* the same backing array; the slot past the new end keeps its old content
SliceRemove(arr, n, i) ==
    [backing |-> [j \in 1..Len(arr) |->
                     IF j >= i /\ j < n THEN arr[j + 1] ELSE arr[j]],
     keysLen |-> n - 1]

\* index of the first key with this Kid, 0 when there is none
RECURSIVE IndexFrom(_, _, _)
IndexFrom(s, kid, i) ==
    IF i > Len(s) THEN 0
    ELSE IF s[i].Kid = kid THEN i
    ELSE IndexFrom(s, kid, i + 1)

IndexOfKid(s, kid) == IndexFrom(s, kid, 1)

\* ---------------------------------------------------------------- the lock

NoProc == "none"

CanLock_Always == TRUE

\* sync.RWMutex.Lock can return: no writer and no reader holds the lock
CanLock == mu.writer = NoProc /\ mu.readers = {}
CanRLock_Always == TRUE

\* sync.RWMutex.RLock can return: no writer holds the lock
CanRLock == mu.writer = NoProc

\* ---------------------------------------------------------------- pointers

NilPtr == [kind |-> "nil", idx |-> 0, val |-> ZeroKeyPair]
\* &m.keys[i]: a pointer into the current backing array
LivePtr(i) == [kind |-> "live", idx |-> i, val |-> ZeroKeyPair]

\* the KeyPair a pointer reads now
Deref(ptr) == IF ptr.kind = "live" THEN backing[ptr.idx] ELSE ptr.val

\* what a pointer becomes when append moves m.keys to a new array: it keeps
\* pointing into the old array, which nothing writes any more
Detach(ptr) ==
    IF ptr.kind = "live"
    THEN [kind |-> "old", idx |-> 0, val |-> backing[ptr.idx]]
    ELSE ptr

\* ---------------------------------------------------------------- handlers

\* JSON values, as they travel in token strings and response bodies
Str(s) == [t |-> "string", v |-> s]
Num(n) == [t |-> "number", v |-> n]
Bool(b) == [t |-> "bool", v |-> b]
Arr(a) == [t |-> "array", v |-> a]

\* Go values held in a map[string]interface{}
GoString(s) == [t |-> "string", v |-> s]
GoInt64(n) == [t |-> "int64", v |-> n]
GoFloat64(n) == [t |-> "float64", v |-> n]
GoBool(b) == [t |-> "bool", v |-> b]
GoStrings(a) == [t |-> "[]string", v |-> a]
GoSlice(a) == [t |-> "[]interface{}", v |-> a]

\* encoding/json: Marshal of a value, and Unmarshal into interface{}
JSONEncodeValue(x) ==
    IF x.t \in {"int64", "float64"} THEN Num(x.v)
    ELSE IF x.t \in {"[]string", "[]interface{}"} THEN Arr(x.v)
    ELSE x
JSONDecodeValue(j) ==
    IF j.t = "number" THEN GoFloat64(j.v)
    ELSE IF j.t = "array" THEN GoSlice(j.v)
    ELSE j
JSONEncode(m) == [k \in DOMAIN m |-> JSONEncodeValue(m[k])]
JSONDecode(m) == [k \in DOMAIN m |-> JSONDecodeValue(m[k])]

\* a claim set with no claim (a map of length 0, or nil)
NoClaims == [x \in {} |-> Str("")]

\* the *int of TokenRequest.ExpiresIn: nil, or a value
NilInt == [set |-> FALSE, v |-> 0]
IntPtr(n) == [set |-> TRUE, v |-> n]

\* a token string: nothing, something that is no JWT, or the three segments
\* (decoded) of a JWT
EmptyHeader == [x \in {} |-> ""]
NoSig == [by |-> 0, alg |-> "", over |-> <<EmptyHeader, NoClaims>>]
EmptyTokenString == [form |-> "empty", header |-> EmptyHeader, claims |-> NoClaims, sig |-> NoSig]
GarbageTokenString == [form |-> "malformed", header |-> EmptyHeader, claims |-> NoClaims, sig |-> NoSig]
JWTString(header, claims, sig) == [form |-> "jwt", header |-> header, claims |-> claims, sig |-> sig]

NoBody == [x \in {} |-> Str("")]
NoReq == [op |-> "none", kid |-> "", claims |-> NoClaims, expiresIn |-> NilInt,
          token |-> EmptyTokenString]
NoLoc == [ptr |-> NilPtr, keyIDs |-> <<>>, expiresInSeconds |-> 0, claims |-> NoClaims,
          exp |-> 0, invalidPrivateKey |-> 0, tokenString |-> EmptyTokenString,
          \* history, not program state: the store changed since GetRandomKey
          \* returned; the id of an AddKey call that overlapped this AddKey
          \* call; the ids stored when the overlap began, or when
          \* GetRandomKey selected; the key pair GetRandomKey selected or
          \* GetKeyByID found
          mutated |-> FALSE, rival |-> "", pre |-> <<>>, found |-> ZeroKeyPair]
\* a response; kid and token are history, not part of the response: the id
\* and the token string of the request
NoResp == [op |-> "none", status |-> 0, body |-> NoBody, kid |-> "",
           token |-> EmptyTokenString]

Init ==
    /\ started = FALSE
    /\ backing = <<>>
    /\ keysLen = 0
    /\ mu = [writer |-> NoProc, readers |-> {}]
    /\ nextKey = 1
    /\ nextInvalid = -1
    /\ now = 1
    /\ pc = [p \in Procs |-> "idle"]
    /\ req = [p \in Procs |-> NoReq]
    /\ loc = [p \in Procs |-> NoLoc]
    /\ resp = [p \in Procs |-> NoResp]
    /\ issued = {}

\* Manager.GenerateKeys(keyIDs), called once by server.New before any request
\* is served: a new array of capacity len(keyIDs), one fresh key pair per id
GenerateKeys(keyIDs) ==
    /\ ~started
    /\ nextKey + Len(keyIDs) - 1 <= MaxKeyGen
    /\ started' = TRUE
    /\ backing' = [i \in 1..Len(keyIDs) |-> generateKeyPair(keyIDs[i], nextKey + i - 1)]
    /\ keysLen' = Len(keyIDs)
    /\ nextKey' = nextKey + Len(keyIDs)
    /\ UNCHANGED <<mu, nextInvalid, now, pc, req, loc, resp, issued>>

\* the clock advances
Tick ==
    /\ now <= MaxTime
    /\ now' = now + 1
    /\ UNCHANGED <<started, backing, keysLen, mu, nextKey, nextInvalid, pc, req, loc, resp, issued>>

\* ----------------------------------------------------- error values, status

\* a message is the sequence of the pieces it is formatted from
ErrAlreadyExists(kid) == <<"key with ID ", kid, " already exists">>
ErrLastKey == <<"cannot remove key: ", "at least one key must remain">>
ErrKeyNotFound(kid) == <<"key not found: ", kid>>
ErrKidRequired == <<"Key ID (kid) is required">>
KeyAdded == <<"Key added successfully">>
KeyRemoved == <<"Key removed successfully">>

\* strings.Contains(msg, sub), for a sub that is a piece or within none
Contains(msg, sub) == \E i \in 1..Len(msg) : msg[i] = sub
ErrSigningKey == "Failed to get signing key"

StatusOK == 200
StatusCreated == 201
StatusBadRequest == 400
StatusNotFound == 404
StatusConflict == 409
StatusInternalServerError == 500

\* AddKey requests that have still to call rsa.GenerateKey
WillGenerate == {p \in Procs : pc[p] \in {"AddKey_Lock", "AddKey_Check", "AddKey_Generate"}}
\* the bound on key generation leaves room for one more request that needs it
KeyGenRoom == (nextKey - 1) + Cardinality(WillGenerate) < MaxKeyGen

Unlocked == [mu EXCEPT !.writer = NoProc]
RLocked(p) == [mu EXCEPT !.readers = @ \cup {p}]
RUnlocked(p) == [mu EXCEPT !.readers = @ \ {p}]

\* the handler of p writes the response to request r
RespondTo(p, r, op, status, body) ==
    resp' = [resp EXCEPT ![p] = [op |-> op, status |-> status, body |-> body,
                                 kid |-> r.kid, token |-> r.token]]
\* the handler of p writes the response to the request it is serving
Respond(p, op, status, body) == RespondTo(p, req[p], op, status, body)

\* history, not program state: what a client holds of a token request that
\* was answered: the operation, the token string, the claims of the request,
\* the expires_in of the response, and whether the store changed since
\* GetRandomKey selected the key
Receipt(p) ==
    [op |-> req[p].op, token |-> loc[p].tokenString, claims |-> req[p].claims,
     expiresIn |-> loc[p].expiresInSeconds, mutated |-> loc[p].mutated]
\* the receipts after a change of the store
Outlived(receipts) == {[t EXCEPT !.mutated = TRUE] : t \in receipts}

\* a handler starts to serve a request
Begin(p, r, at) ==
    /\ started /\ pc[p] = "idle"
    /\ req' = [req EXCEPT ![p] = r]
    /\ resp' = [resp EXCEPT ![p] = NoResp]
    /\ pc' = [pc EXCEPT ![p] = at]

\* a handler has written its response and returns
Finish(p) ==
    /\ pc' = [pc EXCEPT ![p] = "idle"]
    /\ req' = [req EXCEPT ![p] = NoReq]

GenerateKeysAgain_Append(keyIDs) ==
    /\ started /\ CanLock
    /\ nextKey + Len(keyIDs) - 1 <= MaxKeyGen
    /\ backing' = [i \in 1..keysLen |-> keys[i]]
                     \o [i \in 1..Len(keyIDs) |-> generateKeyPair(keyIDs[i], nextKey + i - 1)]
    /\ keysLen' = keysLen + Len(keyIDs)
    /\ nextKey' = nextKey + Len(keyIDs)
    /\ loc' = [q \in Procs |-> [loc[q] EXCEPT !.ptr = Detach(@), !.mutated = TRUE]]
    /\ issued' = Outlived(issued)
    /\ UNCHANGED <<started, mu, nextInvalid, now, pc, req, resp>>

\* Manager.GenerateKeys called on a Manager that has been initialized: the
\* whole call under the write lock; m.keys is a new slice
GenerateKeysAgain(keyIDs) ==
    /\ started /\ CanLock
    /\ nextKey + Len(keyIDs) - 1 <= MaxKeyGen
    /\ backing' = [i \in 1..Len(keyIDs) |-> generateKeyPair(keyIDs[i], nextKey + i - 1)]
    /\ keysLen' = Len(keyIDs)
    /\ nextKey' = nextKey + Len(keyIDs)
    /\ loc' = [q \in Procs |-> [loc[q] EXCEPT !.ptr = Detach(@), !.mutated = TRUE]]
    /\ issued' = Outlived(issued)
    /\ UNCHANGED <<started, mu, nextInvalid, now, pc, req, resp>>

KeyResponse(success, message, kid) ==
    [success |-> success, message |-> message, kid |-> kid]

\* ------------------------------------------------- views of the store

\* jwk.PublicKeyOf: the public fields of a key's JWK
PublicKeyOf(jwk) ==
    [kty |-> jwk.kty, use |-> jwk.use, kid |-> jwk.kid, alg |-> jwk.alg,
     n |-> jwk.n, e |-> jwk.e]

\* Manager.GetJWKS over the keys it sees
GetJWKS(s) == [i \in 1..Len(s) |-> PublicKeyOf(s[i].JWK)]

\* Manager.GetAllKeyIDs over the keys it sees
GetAllKeyIDs(s) == [i \in 1..Len(s) |-> s[i].Kid]

\* Manager.GetKeyCount
GetKeyCount(s) == Len(s)

\* ------------------------------------------------------------ POST /keys

\* Handler.AddKey up to the call of Manager.AddKey
AddKey_Start(p, kid) ==
    /\ started /\ pc[p] = "idle"
    /\ IF kid = ""
       THEN /\ Respond(p, "AddKey", StatusBadRequest, KeyResponse(FALSE, ErrKidRequired, ""))
            /\ loc' = [loc EXCEPT ![p] = NoLoc]
            /\ UNCHANGED <<pc, req>>
       ELSE /\ KeyGenRoom
            /\ Begin(p, [NoReq EXCEPT !.op = "AddKey", !.kid = kid], "AddKey_Lock")
            /\ loc' = [q \in Procs |->
                         IF q = p
                         THEN IF \E o \in Procs \ {p} : req[o].op = "AddKey"
                              THEN [NoLoc EXCEPT
                                      !.rival = req[CHOOSE o \in Procs \ {p} :
                                                       req[o].op = "AddKey"].kid,
                                      !.pre = GetAllKeyIDs(keys)]
                              ELSE NoLoc
                         ELSE IF req[q].op = "AddKey"
                              THEN [loc[q] EXCEPT !.rival = kid, !.pre = GetAllKeyIDs(keys)]
                              ELSE loc[q]]
    /\ UNCHANGED <<started, backing, keysLen, mu, nextKey, nextInvalid, now, issued>>

\* Manager.AddKey: m.mu.Lock()
AddKey_Lock(p) ==
    /\ pc[p] = "AddKey_Lock"
    /\ CanLock
    /\ mu' = [mu EXCEPT !.writer = p]
    /\ pc' = [pc EXCEPT ![p] = "AddKey_Check"]
    /\ UNCHANGED <<started, backing, keysLen, nextKey, nextInvalid, now, req, loc, resp, issued>>

AddKeyExists_Never(s, kid) == FALSE

AddKeyExists_LastOnly(s, kid) == Len(s) > 0 /\ s[Len(s)].Kid = kid

\* Manager.AddKey: the scan for an existing key with this id
AddKeyExists(s, kid) == \E i \in 1..Len(s) : s[i].Kid = kid

AddKey_Check_KeepsLock(p) ==
    /\ pc[p] = "AddKey_Check"
    /\ IF AddKeyExists(keys, req[p].kid)
       THEN /\ Respond(p, "AddKey", StatusConflict, KeyResponse(FALSE, ErrAlreadyExists(req[p].kid), ""))
            /\ Finish(p)
            /\ UNCHANGED mu
       ELSE /\ pc' = [pc EXCEPT ![p] = "AddKey_Generate"]
            /\ UNCHANGED <<mu, resp, req>>
    /\ UNCHANGED <<started, backing, keysLen, nextKey, nextInvalid, now, loc, issued>>

\* Manager.AddKey: on a duplicate id the error is returned (defer Unlock) and
\* the handler answers 409; otherwise the key pair is generated next
AddKey_Check(p) ==
    /\ pc[p] = "AddKey_Check"
    /\ IF AddKeyExists(keys, req[p].kid)
       THEN /\ mu' = Unlocked
            /\ Respond(p, "AddKey", StatusConflict, KeyResponse(FALSE, ErrAlreadyExists(req[p].kid), ""))
            /\ Finish(p)
       ELSE /\ pc' = [pc EXCEPT ![p] = "AddKey_Generate"]
            /\ UNCHANGED <<mu, resp, req>>
    /\ UNCHANGED <<started, backing, keysLen, nextKey, nextInvalid, now, loc, issued>>

\* Manager.AddKey: generateKeyPair and append under the write lock, then
\* Unlock; the handler answers 201
AddKey_Generate(p) ==
    /\ pc[p] = "AddKey_Generate"
    /\ LET kp == generateKeyPair(req[p].kid, nextKey)
           r == SliceAppend(backing, keysLen, kp)
       IN /\ backing' = r.backing
          /\ keysLen' = r.keysLen
          /\ loc' = [q \in Procs |->
                       [loc[q] EXCEPT !.ptr = IF r.moved THEN Detach(@) ELSE @,
                                      !.mutated = TRUE]]
    /\ nextKey' = nextKey + 1
    /\ mu' = Unlocked
    /\ Respond(p, "AddKey", StatusCreated, KeyResponse(TRUE, KeyAdded, req[p].kid))
    /\ issued' = Outlived(issued)
    /\ Finish(p)
    /\ UNCHANGED <<started, nextInvalid, now>>

\* ---------------------------------------------------- DELETE /keys/{kid}

\* Handler.RemoveKey up to the call of Manager.RemoveKey
RemoveKey_Start(p, kid) ==
    /\ started /\ pc[p] = "idle"
    /\ IF kid = ""
       THEN /\ Respond(p, "RemoveKey", StatusBadRequest, KeyResponse(FALSE, ErrKidRequired, ""))
            /\ UNCHANGED <<pc, req>>
       ELSE Begin(p, [NoReq EXCEPT !.op = "RemoveKey", !.kid = kid], "RemoveKey_Lock")
    /\ loc' = [loc EXCEPT ![p] = NoLoc]
    /\ UNCHANGED <<started, backing, keysLen, mu, nextKey, nextInvalid, now, issued>>

\* Manager.RemoveKey: m.mu.Lock()
RemoveKey_Lock(p) ==
    /\ pc[p] = "RemoveKey_Lock"
    /\ CanLock
    /\ mu' = [mu EXCEPT !.writer = p]
    /\ pc' = [pc EXCEPT ![p] = "RemoveKey_Body"]
    /\ UNCHANGED <<started, backing, keysLen, nextKey, nextInvalid, now, req, loc, resp, issued>>

AtLeastOneMustRemain_Zero(n) == n <= 0

\* Manager.RemoveKey: the guard "at least one key must remain"
AtLeastOneMustRemain(n) == n <= 1

RemoveKeyErrStatus_AlwaysNotFound(err) == StatusNotFound

\* Handler.RemoveKey: the status of a Manager.RemoveKey error
RemoveKeyErrStatus(err) ==
    IF Contains(err, "at least one key must remain") THEN StatusBadRequest ELSE StatusNotFound

\* Manager.RemoveKey under the write lock, then Unlock, and the handler's answer
RemoveKey_Body(p) ==
    /\ pc[p] = "RemoveKey_Body"
    /\ LET i == IndexOfKid(keys, req[p].kid)
       IN IF AtLeastOneMustRemain(keysLen)
          THEN /\ Respond(p, "RemoveKey", RemoveKeyErrStatus(ErrLastKey),
                          KeyResponse(FALSE, ErrLastKey, ""))
               /\ UNCHANGED <<backing, keysLen, loc, issued>>
          ELSE IF i # 0
          THEN /\ backing' = SliceRemove(backing, keysLen, i).backing
               /\ keysLen' = SliceRemove(backing, keysLen, i).keysLen
               /\ Respond(p, "RemoveKey", StatusOK,
                          KeyResponse(TRUE, KeyRemoved, req[p].kid))
               /\ loc' = [q \in Procs |-> [loc[q] EXCEPT !.mutated = TRUE]]
               /\ issued' = Outlived(issued)
          ELSE /\ Respond(p, "RemoveKey", RemoveKeyErrStatus(ErrKeyNotFound(req[p].kid)),
                          KeyResponse(FALSE, ErrKeyNotFound(req[p].kid), ""))
               /\ UNCHANGED <<backing, keysLen, loc, issued>>
    /\ mu' = Unlocked
    /\ Finish(p)
    /\ UNCHANGED <<started, nextKey, nextInvalid, now>>

\* ------------------------------------------- GET /.well-known/jwks.json

JWKS_Start(p) ==
    /\ Begin(p, [NoReq EXCEPT !.op = "JWKS"], "GetJWKS_RLock")
    /\ loc' = [loc EXCEPT ![p] = NoLoc]
    /\ UNCHANGED <<started, backing, keysLen, mu, nextKey, nextInvalid, now, issued>>

\* Manager.GetJWKS: m.mu.RLock()
GetJWKS_RLock(p) ==
    /\ pc[p] = "GetJWKS_RLock"
    /\ CanRLock
    /\ mu' = RLocked(p)
    /\ pc' = [pc EXCEPT ![p] = "GetJWKS_Body"]
    /\ UNCHANGED <<started, backing, keysLen, nextKey, nextInvalid, now, req, loc, resp, issued>>

\* Manager.GetJWKS under the read lock, RUnlock, and the handler's answer
GetJWKS_Body(p) ==
    /\ pc[p] = "GetJWKS_Body"
    /\ mu' = RUnlocked(p)
    /\ Respond(p, "JWKS", StatusOK, [keys |-> GetJWKS(keys)])
    /\ Finish(p)
    /\ UNCHANGED <<started, backing, keysLen, nextKey, nextInvalid, now, loc, issued>>

\* ------------------------------------------------------------- GET /keys

Keys_Start(p) ==
    /\ Begin(p, [NoReq EXCEPT !.op = "Keys"], "GetAllKeyIDs_RLock")
    /\ loc' = [loc EXCEPT ![p] = NoLoc]
    /\ UNCHANGED <<started, backing, keysLen, mu, nextKey, nextInvalid, now, issued>>

\* Manager.GetAllKeyIDs: m.mu.RLock()
GetAllKeyIDs_RLock(p) ==
    /\ pc[p] = "GetAllKeyIDs_RLock"
    /\ CanRLock
    /\ mu' = RLocked(p)
    /\ pc' = [pc EXCEPT ![p] = "GetAllKeyIDs_Body"]
    /\ UNCHANGED <<started, backing, keysLen, nextKey, nextInvalid, now, req, loc, resp, issued>>

\* Manager.GetAllKeyIDs under the read lock, then RUnlock
GetAllKeyIDs_Body(p) ==
    /\ pc[p] = "GetAllKeyIDs_Body"
    /\ loc' = [loc EXCEPT ![p].keyIDs = GetAllKeyIDs(keys)]
    /\ mu' = RUnlocked(p)
    /\ pc' = [pc EXCEPT ![p] = "GetKeyCount_RLock"]
    /\ UNCHANGED <<started, backing, keysLen, nextKey, nextInvalid, now, req, resp, issued>>

\* Manager.GetKeyCount: m.mu.RLock()
GetKeyCount_RLock(p) ==
    /\ pc[p] = "GetKeyCount_RLock"
    /\ CanRLock
    /\ mu' = RLocked(p)
    /\ pc' = [pc EXCEPT ![p] = "GetKeyCount_Body"]
    /\ UNCHANGED <<started, backing, keysLen, nextKey, nextInvalid, now, req, loc, resp, issued>>

\* Handler.Keys: one entry per id of keyIDs, and the count read afterwards
KeysResponse(keyIDs, count) ==
    [total_keys |-> count,
     available_keys |-> [i \in 1..Len(keyIDs) |->
                            [kid |-> keyIDs[i], alg |-> "RS256", use |-> "sig"]]]

\* Manager.GetKeyCount under the read lock, RUnlock, and the handler's answer
GetKeyCount_Body(p) ==
    /\ pc[p] = "GetKeyCount_Body"
    /\ mu' = RUnlocked(p)
    /\ Respond(p, "Keys", StatusOK, KeysResponse(loc[p].keyIDs, GetKeyCount(keys)))
    /\ loc' = [loc EXCEPT ![p] = NoLoc]
    /\ Finish(p)
    /\ UNCHANGED <<started, backing, keysLen, nextKey, nextInvalid, now, issued>>

\* ------------------------------------------------------------ configuration

\* config.JWT.Issuer and config.JWT.Audience (the defaults of config.Load)
Issuer == "http://localhost:3000"
Audience == "dev-api"

\* expiresInSeconds when the request names none
DefaultExpiresIn == 3600

\* the claims GenerateToken substitutes for an empty claim set
DefaultClaims ==
    ("sub" :> GoString("test-user")) @@ ("email" :> GoString("test@example.com"))
    @@ ("name" :> GoString("Test User")) @@ ("roles" :> GoStrings(<<"user">>))

\* the claims GenerateInvalidToken substitutes for an empty claim set
DefaultInvalidClaims ==
    ("sub" :> GoString("invalid-test-user")) @@ ("email" :> GoString("invalid-test@example.com"))
    @@ ("name" :> GoString("Invalid Test User")) @@ ("roles" :> GoStrings(<<"user">>))

\* --------------------------------------------------------------- the JWT

\* jwt.NewWithClaims(jwt.SigningMethodRS256, ...).Header, then Header["kid"]
NewHeader(kid) == ("typ" :> "JWT") @@ ("alg" :> "RS256") @@ ("kid" :> kid)

\* the signing string of a token: its encoded header and claims
SigningString(header, claims) == <<header, claims>>

\* SigningMethodRSA.Sign with private key material d
RSASign(alg, d, signingString) == [by |-> d, alg |-> alg, over |-> signingString]

RSAVerify_Any(alg, pub, signingString, sig) == TRUE

\* SigningMethodRSA.Verify with a public key
RSAVerify(alg, pub, signingString, sig) ==
    sig.alg = alg /\ PublicOf(sig.by) = pub /\ sig.over = signingString

\* Token.SignedString: the token string of header and claims signed with d
SignedString(header, jwtClaims, d) ==
    JWTString(header, JSONEncode(jwtClaims),
              RSASign(header["alg"], d, SigningString(header, JSONEncode(jwtClaims))))

\* the algorithms whose jwt.SigningMethod is a *jwt.SigningMethodRSA
RSAMethods == {"RS256", "RS384", "RS512"}
\* the algorithms jwt.GetSigningMethod knows
KnownMethods == RSAMethods \cup {"none", "HS256", "HS384", "HS512", "PS256", "ES256"}

\* MapClaims.parseNumericDate: absent or 0 is no date, a non-number is an error
NumericDateError(claims, name) == name \in DOMAIN claims /\ claims[name].t # "float64"
HasNumericDate(claims, name) ==
    name \in DOMAIN claims /\ claims[name].t = "float64" /\ claims[name].v # 0

\* jwt.Validator.Validate of MapClaims at time t: exp and nbf
ClaimsValid(claims, t) ==
    /\ ~NumericDateError(claims, "exp")
    /\ HasNumericDate(claims, "exp") => t < claims["exp"].v
    /\ ~NumericDateError(claims, "nbf")
    /\ HasNumericDate(claims, "nbf") => t >= claims["nbf"].v

\* jwt.Parse up to the key lookup of the Keyfunc: the token string splits and
\* decodes, its alg is known and an RSA method, its kid is a string
ParsesToKeyLookup(tok) ==
    /\ tok.form = "jwt"
    /\ "alg" \in DOMAIN tok.header
    /\ tok.header["alg"] \in KnownMethods
    /\ tok.header["alg"] \in RSAMethods
    /\ "kid" \in DOMAIN tok.header

\* jwt.Parse after the Keyfunc returned pub: signature, then claims at time t
VerifiesWith(tok, pub, t) ==
    /\ RSAVerify(tok.header["alg"], pub, SigningString(tok.header, tok.claims), tok.sig)
    /\ ClaimsValid(JSONDecode(tok.claims), t)

\* ---------------------------------------------------- token requests

\* requests that will hand a token to a client
WillIssue == {p \in Procs : req[p].op \in {"GenerateToken", "GenerateInvalidToken"}}
TokenRoom == Cardinality(issued) + Cardinality(WillIssue) < MaxTokens

ExpiresInSeconds_Positive(expiresIn) ==
    IF expiresIn.set /\ expiresIn.v > 0 THEN expiresIn.v ELSE DefaultExpiresIn

\* GenerateToken and GenerateInvalidToken: expiresInSeconds
ExpiresInSeconds(expiresIn) == IF expiresIn.set THEN expiresIn.v ELSE DefaultExpiresIn

\* GenerateToken and GenerateInvalidToken: the claims used for those of the request
ClaimsOrDefault(claims, default) == IF DOMAIN claims = {} THEN default ELSE claims

JWTClaims_CallerFirst(claims, iat, exp) ==
    [k \in DOMAIN claims \cup {"iat", "exp", "iss", "aud"} |->
        IF k \in DOMAIN claims THEN claims[k]
        ELSE IF k = "iat" THEN GoInt64(iat)
        ELSE IF k = "exp" THEN GoInt64(exp)
        ELSE IF k = "iss" THEN GoString(Issuer)
        ELSE GoString(Audience)]

\* the standard claims written over the request's claims
JWTClaims(claims, iat, exp) ==
    [k \in DOMAIN claims \cup {"iat", "exp", "iss", "aud"} |->
        IF k = "iat" THEN GoInt64(iat)
        ELSE IF k = "exp" THEN GoInt64(exp)
        ELSE IF k = "iss" THEN GoString(Issuer)
        ELSE IF k = "aud" THEN GoString(Audience)
        ELSE claims[k]]

TokenResponse(token, expiresIn, keyID, rawRequest) ==
    [token |-> token, expires_in |-> expiresIn, key_id |-> keyID,
     raw_request |-> JSONEncode(rawRequest)]

ErrorBody(msg) == [error |-> msg]

\* Handler.GenerateToken up to the call of GetRandomKey
GenerateToken_Start(p, claims, expiresIn) ==
    /\ TokenRoom
    /\ Begin(p, [NoReq EXCEPT !.op = "GenerateToken", !.claims = claims,
                              !.expiresIn = expiresIn], "GetRandomKey_RLock")
    /\ loc' = [loc EXCEPT ![p] = [NoLoc EXCEPT
                   !.expiresInSeconds = ExpiresInSeconds(expiresIn),
                   !.claims = ClaimsOrDefault(claims, DefaultClaims)]]
    /\ UNCHANGED <<started, backing, keysLen, mu, nextKey, nextInvalid, now, issued>>

\* Handler.GenerateInvalidToken up to the call of GetRandomKey
GenerateInvalidToken_Start(p, claims, expiresIn) ==
    /\ TokenRoom
    /\ Begin(p, [NoReq EXCEPT !.op = "GenerateInvalidToken", !.claims = claims,
                              !.expiresIn = expiresIn], "GetRandomKey_RLock")
    /\ loc' = [loc EXCEPT ![p] = [NoLoc EXCEPT
                   !.expiresInSeconds = ExpiresInSeconds(expiresIn),
                   !.claims = ClaimsOrDefault(claims, DefaultInvalidClaims)]]
    /\ UNCHANGED <<started, backing, keysLen, mu, nextKey, nextInvalid, now, issued>>

\* Manager.GetRandomKey: m.mu.RLock()
GetRandomKey_RLock(p) ==
    /\ pc[p] = "GetRandomKey_RLock"
    /\ CanRLock
    /\ mu' = RLocked(p)
    /\ pc' = [pc EXCEPT ![p] = "GetRandomKey_Body"]
    /\ UNCHANGED <<started, backing, keysLen, nextKey, nextInvalid, now, req, loc, resp, issued>>

RandomIndexes_First(n) == {1}

\* Manager.GetRandomKey: the indexes rand.Int can select (1-based here)
RandomIndexes(n) == 1..n

NoKeysAvailable_One(n) == n <= 1

\* Manager.GetRandomKey: len(m.keys) == 0
NoKeysAvailable(n) == n = 0

\* Manager.GetRandomKey under the read lock, then RUnlock.  With no key the
\* handler answers 500.  Otherwise the handler holds &m.keys[index]; for
\* GenerateToken the first time.Now() (exp) is read in the same step: no
\* shared state is touched between the two
GetRandomKey_Body(p) ==
    /\ pc[p] = "GetRandomKey_Body"
    /\ mu' = RUnlocked(p)
    /\ IF NoKeysAvailable(keysLen)
       THEN /\ Respond(p, req[p].op, StatusInternalServerError, ErrorBody(ErrSigningKey))
            /\ loc' = [loc EXCEPT ![p] = NoLoc]
            /\ Finish(p)
       ELSE /\ \E i \in RandomIndexes(keysLen) :
                 loc' = [loc EXCEPT ![p].ptr = LivePtr(i),
                                    ![p].found = keys[i],
                                    ![p].mutated = FALSE,
                                    ![p].pre = GetAllKeyIDs(keys),
                                    ![p].exp = IF req[p].op = "GenerateToken"
                                               THEN now + loc[p].expiresInSeconds ELSE 0]
            /\ pc' = [pc EXCEPT ![p] = IF req[p].op = "GenerateToken"
                                       THEN "GenerateToken_Claims"
                                       ELSE "GenerateInvalidToken_Key"]
            /\ UNCHANGED <<resp, req>>
    /\ UNCHANGED <<started, backing, keysLen, nextKey, nextInvalid, now, issued>>

\* Handler.GenerateToken: the claims with iat = the second time.Now(), the
\* header with keyPair.Kid read through the pointer
GenerateToken_Claims(p) ==
    /\ pc[p] = "GenerateToken_Claims"
    /\ loc' = [loc EXCEPT ![p].tokenString =
                  JWTString(NewHeader(Deref(loc[p].ptr).Kid),
                            JWTClaims(loc[p].claims, now, loc[p].exp), NoSig)]
    /\ pc' = [pc EXCEPT ![p] = "GenerateToken_Sign"]
    /\ UNCHANGED <<started, backing, keysLen, mu, nextKey, nextInvalid, now, req, resp, issued>>

\* Handler.GenerateToken: token.SignedString(keyPair.PrivateKey), the private
\* key read through the pointer
GenerateToken_Sign(p) ==
    /\ pc[p] = "GenerateToken_Sign"
    /\ loc' = [loc EXCEPT ![p].tokenString =
                  SignedString(@.header, @.claims, Deref(loc[p].ptr).PrivateKey)]
    /\ pc' = [pc EXCEPT ![p] = "GenerateToken_Respond"]
    /\ UNCHANGED <<started, backing, keysLen, mu, nextKey, nextInvalid, now, req, resp, issued>>

\* Handler.GenerateToken: the response, with KeyID = keyPair.Kid read through
\* the pointer; the client receives the token
GenerateToken_Respond(p) ==
    /\ pc[p] = "GenerateToken_Respond"
    /\ Respond(p, "GenerateToken", StatusOK,
               TokenResponse(loc[p].tokenString, loc[p].expiresInSeconds,
                             Deref(loc[p].ptr).Kid, loc[p].claims))
    /\ issued' = issued \cup {Receipt(p)}
    /\ loc' = [loc EXCEPT ![p] = NoLoc]
    /\ Finish(p)
    /\ UNCHANGED <<started, backing, keysLen, mu, nextKey, nextInvalid, now>>

GenerateInvalidToken_Key_Stored(p) ==
    /\ pc[p] = "GenerateInvalidToken_Key"
    /\ loc' = [loc EXCEPT ![p].invalidPrivateKey = nextInvalid,
                          ![p].exp = now + loc[p].expiresInSeconds]
    /\ nextInvalid' = nextInvalid - 1
    /\ backing' = SliceAppend(backing, keysLen,
                              generateKeyPair("invalid", nextInvalid)).backing
    /\ keysLen' = SliceAppend(backing, keysLen,
                              generateKeyPair("invalid", nextInvalid)).keysLen
    /\ pc' = [pc EXCEPT ![p] = "GenerateInvalidToken_Sign"]
    /\ UNCHANGED <<started, mu, nextKey, now, req, resp, issued>>

\* Handler.GenerateInvalidToken: rsa.GenerateKey of the throwaway key, and
\* the first time.Now() (exp)
GenerateInvalidToken_Key(p) ==
    /\ pc[p] = "GenerateInvalidToken_Key"
    /\ loc' = [loc EXCEPT ![p].invalidPrivateKey = nextInvalid,
                          ![p].exp = now + loc[p].expiresInSeconds]
    /\ nextInvalid' = nextInvalid - 1
    /\ pc' = [pc EXCEPT ![p] = "GenerateInvalidToken_Sign"]
    /\ UNCHANGED <<started, backing, keysLen, mu, nextKey, now, req, resp, issued>>

InvalidSigningKey_Valid(ptr, invalidPrivateKey) == Deref(ptr).PrivateKey

\* Handler.GenerateInvalidToken: the key token.SignedString is given
InvalidSigningKey(ptr, invalidPrivateKey) == invalidPrivateKey

\* Handler.GenerateInvalidToken: the claims with iat = the second time.Now(),
\* the header with validKey.Kid read through the pointer, and the signature
\* with the throwaway key
GenerateInvalidToken_Sign(p) ==
    /\ pc[p] = "GenerateInvalidToken_Sign"
    /\ loc' = [loc EXCEPT ![p].tokenString =
                  SignedString(NewHeader(Deref(loc[p].ptr).Kid),
                               JWTClaims(loc[p].claims, now, loc[p].exp),
                               InvalidSigningKey(loc[p].ptr, loc[p].invalidPrivateKey))]
    /\ pc' = [pc EXCEPT ![p] = "GenerateInvalidToken_Respond"]
    /\ UNCHANGED <<started, backing, keysLen, mu, nextKey, nextInvalid, now, req, resp, issued>>

\* Handler.GenerateInvalidToken: the response, with KeyID = validKey.Kid read
\* through the pointer; the client receives the token
GenerateInvalidToken_Respond(p) ==
    /\ pc[p] = "GenerateInvalidToken_Respond"
    /\ Respond(p, "GenerateInvalidToken", StatusOK,
               TokenResponse(loc[p].tokenString, loc[p].expiresInSeconds,
                             Deref(loc[p].ptr).Kid, loc[p].claims))
    /\ issued' = issued \cup {Receipt(p)}
    /\ loc' = [loc EXCEPT ![p] = NoLoc]
    /\ Finish(p)
    /\ UNCHANGED <<started, backing, keysLen, mu, nextKey, nextInvalid, now>>

\* ------------------------------------------------------- POST /introspect

\* the zero IntrospectionResponse
ZeroIntrospection ==
    [Active |-> FALSE, TokenType |-> "", Scope |-> "", ClientID |-> "", Username |-> "",
     Exp |-> 0, Iat |-> 0, Nbf |-> 0, Sub |-> "", Aud |-> "", Iss |-> "", Jti |-> "",
     Claims |-> NoClaims]

\* claims[name].(float64) and claims[name].(string), the zero value when the
\* assertion fails
AsFloat64(claims, name) ==
    IF name \in DOMAIN claims /\ claims[name].t = "float64" THEN claims[name].v ELSE 0
AsString(claims, name) ==
    IF name \in DOMAIN claims /\ claims[name].t = "string" THEN claims[name].v ELSE ""

\* claims[name] != s is false: the claim is a string equal to s
ClaimIs(claims, name, s) ==
    name \in DOMAIN claims /\ claims[name].t = "string" /\ claims[name].v = s

IssuerAudienceOK_IssuerOnly(claims) == ClaimIs(claims, "iss", Issuer)

\* Handler.Introspect: the issuer and audience test on a verified token
IssuerAudienceOK(claims) ==
    ClaimIs(claims, "iss", Issuer) /\ ClaimIs(claims, "aud", Audience)

\* Handler.Introspect: the response built from the claims of a verified token
ActiveIntrospection(claims) ==
    [ZeroIntrospection EXCEPT
        !.Active = TRUE,
        !.TokenType = "Bearer",
        !.Exp = AsFloat64(claims, "exp"),
        !.Iat = AsFloat64(claims, "iat"),
        !.Nbf = AsFloat64(claims, "nbf"),
        !.Sub = AsString(claims, "sub"),
        !.Username = AsString(claims, "sub"),
        !.Aud = AsString(claims, "aud"),
        !.Iss = AsString(claims, "iss"),
        !.Jti = AsString(claims, "jti"),
        !.Claims = claims]

standardFields ==
    {"active", "token_type", "scope", "client_id", "username", "exp", "iat", "nbf",
     "sub", "aud", "iss", "jti"}

StandardResult_NoOmit(r) == standardFields

\* the standard fields MarshalJSON writes: active always, the others when set
StandardResult(r) ==
    {"active"}
    \cup (IF r.TokenType # "" THEN {"token_type"} ELSE {})
    \cup (IF r.Scope # "" THEN {"scope"} ELSE {})
    \cup (IF r.ClientID # "" THEN {"client_id"} ELSE {})
    \cup (IF r.Username # "" THEN {"username"} ELSE {})
    \cup (IF r.Exp # 0 THEN {"exp"} ELSE {})
    \cup (IF r.Iat # 0 THEN {"iat"} ELSE {})
    \cup (IF r.Nbf # 0 THEN {"nbf"} ELSE {})
    \cup (IF r.Sub # "" THEN {"sub"} ELSE {})
    \cup (IF r.Aud # "" THEN {"aud"} ELSE {})
    \cup (IF r.Iss # "" THEN {"iss"} ELSE {})
    \cup (IF r.Jti # "" THEN {"jti"} ELSE {})

StandardValue(r, k) ==
    CASE k = "active" -> Bool(r.Active)
      [] k = "token_type" -> Str(r.TokenType)
      [] k = "scope" -> Str(r.Scope)
      [] k = "client_id" -> Str(r.ClientID)
      [] k = "username" -> Str(r.Username)
      [] k = "exp" -> Num(r.Exp)
      [] k = "iat" -> Num(r.Iat)
      [] k = "nbf" -> Num(r.Nbf)
      [] k = "sub" -> Str(r.Sub)
      [] k = "aud" -> Str(r.Aud)
      [] k = "iss" -> Str(r.Iss)
      [] k = "jti" -> Str(r.Jti)

MarshalJSON_ClaimsLast(r) ==
    [k \in StandardResult(r) \cup DOMAIN r.Claims |->
        IF k \in DOMAIN r.Claims THEN JSONEncodeValue(r.Claims[k])
        ELSE StandardValue(r, k)]

\* IntrospectionResponse.MarshalJSON: the JSON object of the response
MarshalJSON(r) ==
    [k \in StandardResult(r) \cup (DOMAIN r.Claims \ standardFields) |->
        IF k \in StandardResult(r) THEN StandardValue(r, k)
        ELSE JSONEncodeValue(r.Claims[k])]

Inactive == MarshalJSON(ZeroIntrospection)

\* Handler.Introspect up to the call of GetKeyByID: an empty token, or one
\* jwt.Parse rejects before or in the Keyfunc, is answered at once
Introspect_Start(p, token) ==
    /\ started /\ pc[p] = "idle"
    /\ IF token.form = "empty" \/ ~ParsesToKeyLookup(token)
       THEN /\ RespondTo(p, [NoReq EXCEPT !.token = token],
                          "Introspect", StatusOK, Inactive)
            /\ UNCHANGED <<pc, req>>
       ELSE Begin(p, [NoReq EXCEPT !.op = "Introspect", !.token = token,
                                   !.kid = token.header["kid"]], "GetKeyByID_RLock")
    /\ loc' = [loc EXCEPT ![p] = NoLoc]
    /\ UNCHANGED <<started, backing, keysLen, mu, nextKey, nextInvalid, now, issued>>

\* Manager.GetKeyByID: m.mu.RLock()
GetKeyByID_RLock(p) ==
    /\ pc[p] = "GetKeyByID_RLock"
    /\ CanRLock
    /\ mu' = RLocked(p)
    /\ pc' = [pc EXCEPT ![p] = "GetKeyByID_Body"]
    /\ UNCHANGED <<started, backing, keysLen, nextKey, nextInvalid, now, req, loc, resp, issued>>

GetKeyByID_First(s, kid) == IF Len(s) > 0 THEN 1 ELSE 0

\* Manager.GetKeyByID: the index of the key found (0: key not found)
GetKeyByID(s, kid) == IndexOfKid(s, kid)

\* Manager.GetKeyByID under the read lock, then RUnlock.  With no such key
\* the Keyfunc fails and the handler answers active=false; otherwise the
\* handler holds &m.keys[i]
GetKeyByID_Body(p) ==
    /\ pc[p] = "GetKeyByID_Body"
    /\ mu' = RUnlocked(p)
    /\ LET i == GetKeyByID(keys, req[p].kid)
       IN IF i = 0
          THEN /\ Respond(p, "Introspect", StatusOK, Inactive)
               /\ Finish(p)
               /\ UNCHANGED loc
          ELSE /\ loc' = [loc EXCEPT ![p].ptr = LivePtr(i), ![p].found = keys[i]]
               /\ pc' = [pc EXCEPT ![p] = "Introspect_Verify"]
               /\ UNCHANGED <<resp, req>>
    /\ UNCHANGED <<started, backing, keysLen, nextKey, nextInvalid, now, issued>>

Introspection_Leaky(tok, pub, t) ==
    IF VerifiesWith(tok, pub, t)
    THEN [ActiveIntrospection(JSONDecode(tok.claims)) EXCEPT
             !.Active = IssuerAudienceOK(JSONDecode(tok.claims))]
    ELSE ZeroIntrospection

\* Handler.Introspect: the decision on a token whose key read through the
\* pointer has public key pub, at time t
Introspection(tok, pub, t) ==
    IF VerifiesWith(tok, pub, t) /\ IssuerAudienceOK(JSONDecode(tok.claims))
    THEN ActiveIntrospection(JSONDecode(tok.claims))
    ELSE ZeroIntrospection

\* Handler.Introspect: keyPair.PublicKey read through the pointer, the
\* signature and the claims verified at time.Now(), and the response
Introspect_Verify(p) ==
    /\ pc[p] = "Introspect_Verify"
    /\ Respond(p, "Introspect", StatusOK,
               MarshalJSON(Introspection(req[p].token, Deref(loc[p].ptr).PublicKey, now)))
    /\ loc' = [loc EXCEPT ![p] = NoLoc]
    /\ Finish(p)
    /\ UNCHANGED <<started, backing, keysLen, mu, nextKey, nextInvalid, now, issued>>

\* --------------------------------------------------------- request inputs

ClaimsAlice == ("sub" :> GoString("alice"))
\* a claim set that names every claim the system writes, fields of the
\* introspection response, and a claim of its own
ClaimsMallory ==
    ("sub" :> GoString("mallory")) @@ ("iss" :> GoString("evil"))
    @@ ("aud" :> GoString("custom-service")) @@ ("exp" :> GoFloat64(99))
    @@ ("iat" :> GoFloat64(77)) @@ ("role" :> GoString("admin"))
    @@ ("active" :> GoBool(FALSE)) @@ ("token_type" :> GoString("mac"))
    @@ ("scope" :> GoString("read"))

\* claim sets of token requests, as the JSON decoder delivers them
ClaimInputs == {NoClaims, ClaimsMallory}

\* expiresIn of token requests
ExpiresInInputs == {NilInt, IntPtr(1)}

\* token strings nobody issued
UnknownKidToken ==
    JWTString(NewHeader("zz"), JSONEncode(JWTClaims(ClaimsAlice, 0, DefaultExpiresIn)),
              RSASign("RS256", 0, SigningString(NewHeader("zz"),
                      JSONEncode(JWTClaims(ClaimsAlice, 0, DefaultExpiresIn)))))
NoneAlgToken ==
    JWTString(("typ" :> "JWT") @@ ("alg" :> "none") @@ ("kid" :> "k1"),
              JSONEncode(JWTClaims(ClaimsAlice, 0, DefaultExpiresIn)), NoSig)
ForgedTokens == {EmptyTokenString, GarbageTokenString, UnknownKidToken, NoneAlgToken}

\* token strings made outside the handlers with the private key of the first
\* key pair generated: kid k1, no expiry, and claims GenerateToken never writes
HolderToken(claims) ==
    SignedString(NewHeader("k1"), claims, 1)
ForeignAudienceToken ==
    HolderToken(("sub" :> GoString("alice")) @@ ("iss" :> GoString(Issuer))
                @@ ("aud" :> GoString("custom-service")))
ForeignIssuerToken ==
    HolderToken(("sub" :> GoString("alice")) @@ ("iss" :> GoString("evil"))
                @@ ("aud" :> GoString(Audience)))
HolderTokens == {ForeignAudienceToken, ForeignIssuerToken}

\* the token strings clients have received
IssuedTokens == {t.token : t \in issued}

\* key ids of the key management requests that run beside token requests
TokenAddInputs == {"k1", "k3"}
TokenRemoveInputs == {"k1"}

\* the handlers that serve token requests, and those that serve key management
Clients == {"p1"}
Admins == {"p2"}

\* ------------------------------------------------------------------- Next

\* the key store under concurrent key management requests
NextStore ==
    \/ \E keyIDs \in InitialKeyIDs : GenerateKeys(keyIDs)
    \/ \E p \in Procs, kid \in KidInputs : AddKey_Start(p, kid)
    \/ \E p \in Procs : AddKey_Lock(p)
    \/ \E p \in Procs : AddKey_Check(p)
    \/ \E p \in Procs : AddKey_Generate(p)
    \/ \E p \in Procs, kid \in KidInputs : RemoveKey_Start(p, kid)
    \/ \E p \in Procs : RemoveKey_Lock(p)
    \/ \E p \in Procs : RemoveKey_Body(p)

SpecStore == Init /\ [][NextStore]_vars

\* token requests of the clients beside key management requests of the admins,
\* and the clock
NextToken ==
    \/ \E keyIDs \in InitialKeyIDs : GenerateKeys(keyIDs)
    \/ Tick
    \/ \E p \in Clients, claims \in ClaimInputs, expiresIn \in ExpiresInInputs :
          GenerateToken_Start(p, claims, expiresIn)
    \/ \E p \in Clients, claims \in ClaimInputs, expiresIn \in ExpiresInInputs :
          GenerateInvalidToken_Start(p, claims, expiresIn)
    \/ \E p \in Clients : GetRandomKey_RLock(p)
    \/ \E p \in Clients : GetRandomKey_Body(p)
    \/ \E p \in Clients : GenerateToken_Claims(p)
    \/ \E p \in Clients : GenerateToken_Sign(p)
    \/ \E p \in Clients : GenerateToken_Respond(p)
    \/ \E p \in Clients : GenerateInvalidToken_Key(p)
    \/ \E p \in Clients : GenerateInvalidToken_Sign(p)
    \/ \E p \in Clients : GenerateInvalidToken_Respond(p)
    \/ \E p \in Clients, token \in IssuedTokens \cup ForgedTokens \cup HolderTokens :
          Introspect_Start(p, token)
    \/ \E p \in Clients : GetKeyByID_RLock(p)
    \/ \E p \in Clients : GetKeyByID_Body(p)
    \/ \E p \in Clients : Introspect_Verify(p)
    \/ \E p \in Admins, kid \in TokenAddInputs : AddKey_Start(p, kid)
    \/ \E p \in Procs : AddKey_Lock(p)
    \/ \E p \in Procs : AddKey_Check(p)
    \/ \E p \in Procs : AddKey_Generate(p)
    \/ \E p \in Admins, kid \in TokenRemoveInputs : RemoveKey_Start(p, kid)
    \/ \E p \in Procs : RemoveKey_Lock(p)
    \/ \E p \in Procs : RemoveKey_Body(p)

SpecToken == Init /\ [][NextToken]_vars

\* discovery and key listing requests of the clients beside key management
\* requests of the admins
NextRead ==
    \/ \E keyIDs \in InitialKeyIDs : GenerateKeys(keyIDs)
    \/ \E p \in Clients : JWKS_Start(p)
    \/ \E p \in Clients : GetJWKS_RLock(p)
    \/ \E p \in Clients : GetJWKS_Body(p)
    \/ \E p \in Clients : Keys_Start(p)
    \/ \E p \in Clients : GetAllKeyIDs_RLock(p)
    \/ \E p \in Clients : GetAllKeyIDs_Body(p)
    \/ \E p \in Clients : GetKeyCount_RLock(p)
    \/ \E p \in Clients : GetKeyCount_Body(p)
    \/ \E p \in Admins, kid \in KidInputs : AddKey_Start(p, kid)
    \/ \E p \in Procs : AddKey_Lock(p)
    \/ \E p \in Procs : AddKey_Check(p)
    \/ \E p \in Procs : AddKey_Generate(p)
    \/ \E p \in Admins, kid \in KidInputs : RemoveKey_Start(p, kid)
    \/ \E p \in Procs : RemoveKey_Lock(p)
    \/ \E p \in Procs : RemoveKey_Body(p)

SpecRead == Init /\ [][NextRead]_vars

\* every request that calls a Manager method, beside key management requests
\* of the admins
NextLock ==
    \/ \E keyIDs \in InitialKeyIDs : GenerateKeys(keyIDs)
    \/ \E p \in Clients : JWKS_Start(p)
    \/ \E p \in Clients : GetJWKS_RLock(p)
    \/ \E p \in Clients : GetJWKS_Body(p)
    \/ \E p \in Clients : Keys_Start(p)
    \/ \E p \in Clients : GetAllKeyIDs_RLock(p)
    \/ \E p \in Clients : GetAllKeyIDs_Body(p)
    \/ \E p \in Clients : GetKeyCount_RLock(p)
    \/ \E p \in Clients : GetKeyCount_Body(p)
    \/ \E p \in Clients : GenerateToken_Start(p, NoClaims, NilInt)
    \/ \E p \in Clients : GetRandomKey_RLock(p)
    \/ \E p \in Clients : GetRandomKey_Body(p)
    \/ \E p \in Clients : GenerateToken_Claims(p)
    \/ \E p \in Clients : GenerateToken_Sign(p)
    \/ \E p \in Clients : GenerateToken_Respond(p)
    \/ \E p \in Clients, token \in IssuedTokens \cup {UnknownKidToken} :
          Introspect_Start(p, token)
    \/ \E p \in Clients : GetKeyByID_RLock(p)
    \/ \E p \in Clients : GetKeyByID_Body(p)
    \/ \E p \in Clients : Introspect_Verify(p)
    \/ \E p \in Admins, kid \in TokenAddInputs : AddKey_Start(p, kid)
    \/ \E p \in Procs : AddKey_Lock(p)
    \/ \E p \in Procs : AddKey_Check(p)
    \/ \E p \in Procs : AddKey_Generate(p)
    \/ \E p \in Admins, kid \in TokenRemoveInputs : RemoveKey_Start(p, kid)
    \/ \E p \in Procs : RemoveKey_Lock(p)
    \/ \E p \in Procs : RemoveKey_Body(p)

\* these requests when every handler that runs keeps running, and
\* sync.RWMutex lets no caller of Lock or RLock starve: a handler that can
\* take the lock again and again does take it (a blocked Lock call keeps
\* new readers out, and a waiter of the mutex is handed the lock in turn)
FairLock ==
    /\ Init /\ [][NextLock]_vars
    /\ \A p \in Procs :
          /\ WF_vars(AddKey_Check(p) \/ AddKey_Generate(p) \/ RemoveKey_Body(p)
                     \/ GetJWKS_Body(p) \/ GetAllKeyIDs_Body(p) \/ GetKeyCount_Body(p)
                     \/ GetRandomKey_Body(p) \/ GenerateToken_Claims(p)
                     \/ GenerateToken_Sign(p) \/ GenerateToken_Respond(p)
                     \/ GetKeyByID_Body(p) \/ Introspect_Verify(p))
          /\ SF_vars(AddKey_Lock(p) \/ RemoveKey_Lock(p) \/ GetJWKS_RLock(p)
                     \/ GetAllKeyIDs_RLock(p) \/ GetKeyCount_RLock(p)
                     \/ GetRandomKey_RLock(p) \/ GetKeyByID_RLock(p))

\* claim sets and expiresIn of token requests served without any concurrent
\* key management: an absent or empty claim set, claim sets of the caller, and
\* an absent, negative, zero and positive expiresIn
IssueClaimInputs == {NoClaims, ClaimsAlice, ClaimsMallory}
IssueExpiresInInputs == {NilInt, IntPtr(-1), IntPtr(0), IntPtr(1)}

\* token requests alone, and the clock
NextIssue ==
    \/ \E keyIDs \in InitialKeyIDs : GenerateKeys(keyIDs)
    \/ Tick
    \/ \E p \in Clients, claims \in IssueClaimInputs, expiresIn \in IssueExpiresInInputs :
          GenerateToken_Start(p, claims, expiresIn)
    \/ \E p \in Clients, claims \in IssueClaimInputs, expiresIn \in IssueExpiresInInputs :
          GenerateInvalidToken_Start(p, claims, expiresIn)
    \/ \E p \in Clients : GetRandomKey_RLock(p)
    \/ \E p \in Clients : GetRandomKey_Body(p)
    \/ \E p \in Clients : GenerateToken_Claims(p)
    \/ \E p \in Clients : GenerateToken_Sign(p)
    \/ \E p \in Clients : GenerateToken_Respond(p)
    \/ \E p \in Clients : GenerateInvalidToken_Key(p)
    \/ \E p \in Clients : GenerateInvalidToken_Sign(p)
    \/ \E p \in Clients : GenerateInvalidToken_Respond(p)

SpecIssue == Init /\ [][NextIssue]_vars

\* initialization, repeated initialization and key management requests
NextInit ==
    \/ \E keyIDs \in InitialKeyIDs : GenerateKeys(keyIDs)
    \/ \E keyIDs \in InitialKeyIDs : GenerateKeysAgain(keyIDs)
    \/ \E p \in Admins, kid \in TokenAddInputs : AddKey_Start(p, kid)
    \/ \E p \in Procs : AddKey_Lock(p)
    \/ \E p \in Procs : AddKey_Check(p)
    \/ \E p \in Procs : AddKey_Generate(p)
    \/ \E p \in Admins, kid \in TokenRemoveInputs : RemoveKey_Start(p, kid)
    \/ \E p \in Procs : RemoveKey_Lock(p)
    \/ \E p \in Procs : RemoveKey_Body(p)

SpecInit == Init /\ [][NextInit]_vars

\* token strings made outside the handlers with the private key of the first
\* key pair generated, for the configured issuer and audience and with no
\* expiry, under headers of the caller's choice
HeaderToken(header) ==
    SignedString(header, ("sub" :> GoString("alice")) @@ ("iss" :> GoString(Issuer))
                         @@ ("aud" :> GoString(Audience)), 1)
\* the header GenerateToken writes, the other RSA algorithms, an algorithm
\* that is not RSA, no alg, and no kid
HeaderTokens ==
    { HeaderToken(NewHeader("k1")),
      HeaderToken(("typ" :> "JWT") @@ ("alg" :> "RS384") @@ ("kid" :> "k1")),
      HeaderToken(("typ" :> "JWT") @@ ("alg" :> "RS512") @@ ("kid" :> "k1")),
      HeaderToken(("typ" :> "JWT") @@ ("alg" :> "PS256") @@ ("kid" :> "k1")),
      JWTString(("typ" :> "JWT") @@ ("kid" :> "k1"), NoClaims, NoSig),
      HeaderToken(("typ" :> "JWT") @@ ("alg" :> "RS256")) }

\* token and introspection requests with every expiresIn and every header,
\* and the clock, without any concurrent key management
NextIntrospect ==
    \/ \E keyIDs \in InitialKeyIDs : GenerateKeys(keyIDs)
    \/ Tick
    \/ \E p \in Clients, expiresIn \in IssueExpiresInInputs :
          GenerateToken_Start(p, ClaimsAlice, expiresIn)
    \/ \E p \in Clients : GetRandomKey_RLock(p)
    \/ \E p \in Clients : GetRandomKey_Body(p)
    \/ \E p \in Clients : GenerateToken_Claims(p)
    \/ \E p \in Clients : GenerateToken_Sign(p)
    \/ \E p \in Clients : GenerateToken_Respond(p)
    \/ \E p \in Clients, token \in IssuedTokens \cup HeaderTokens :
          Introspect_Start(p, token)
    \/ \E p \in Clients : GetKeyByID_RLock(p)
    \/ \E p \in Clients : GetKeyByID_Body(p)
    \/ \E p \in Clients : Introspect_Verify(p)

SpecIntrospect == Init /\ [][NextIntrospect]_vars

\* =================================================================== claims

\* the ids of the stored keys, in slice order
StoredIDs == GetAllKeyIDs(keys)
HasID(kid) == \E i \in 1..keysLen : keys[i].Kid = kid

\* response r is that of op with this status and message
Answered(r, op, status, message) ==
    r.op = op /\ r.status = status /\ r.body.message = message

\* p takes the step that ends its call of op
Returns(p, op) == req[p].op = op /\ pc[p] # "idle" /\ pc'[p] = "idle"

\* C1: once the store holds at least one key, no step of any interleaving of
\* AddKey and RemoveKey calls leaves it with zero keys
C1_NeverEmpty == [][keysLen >= 1 => keysLen' >= 1]_vars

\* a removal was carried out, a later one was refused, and one key is left
C1_Witness ==
    /\ keysLen = 1
    /\ \E p, q \in Procs :
          /\ Answered(resp[p], "RemoveKey", StatusOK, KeyRemoved)
          /\ Answered(resp[q], "RemoveKey", StatusBadRequest, ErrLastKey)

\* C2: in every reachable state, whatever list of ids the store was
\* initialized with, no two stored key pairs have the same id
C2_UniqueIDs == \A i, j \in 1..keysLen : keys[i].Kid = keys[j].Kid => i = j

\* C3: two overlapping AddKey calls for ids not in the store: with different
\* ids both succeed and both keys are stored; with the same id exactly one
\* succeeds, the other fails with "already exists", and one key is stored
C3_ConcurrentAdds ==
    \A p, q \in Procs :
       (/\ p # q
        /\ pc[p] = "idle" /\ pc[q] = "idle"
        /\ resp[p].op = "AddKey" /\ resp[q].op = "AddKey"
        /\ loc[p].rival # "" /\ loc[q].rival # ""
        /\ \A i \in 1..Len(loc[p].pre) : loc[p].pre[i] \notin {loc[p].rival, loc[q].rival})
       => LET pid == loc[q].rival
              qid == loc[p].rival
          IN IF pid # qid
             THEN /\ resp[p].status = StatusCreated /\ resp[p].body.kid = pid
                  /\ resp[q].status = StatusCreated /\ resp[q].body.kid = qid
                  /\ StoredIDs \in {loc[p].pre \o <<pid, qid>>, loc[p].pre \o <<qid, pid>>}
             ELSE /\ \/ /\ resp[p].status = StatusCreated
                        /\ Answered(resp[q], "AddKey", StatusConflict, ErrAlreadyExists(qid))
                     \/ /\ resp[q].status = StatusCreated
                        /\ Answered(resp[p], "AddKey", StatusConflict, ErrAlreadyExists(pid))
                  /\ StoredIDs = Append(loc[p].pre, pid)

\* two overlapping calls AddKey("k3") on the store of k1 have returned, one
\* with 409 and one with 201, and k3 is stored once
C3_Witness ==
    /\ pc["p1"] = "idle" /\ pc["p2"] = "idle"
    /\ loc["p1"].rival = "k3" /\ loc["p2"].rival = "k3"
    /\ loc["p1"].pre = <<"k1">>
    /\ Answered(resp["p1"], "AddKey", StatusConflict, ErrAlreadyExists("k3"))
    /\ resp["p2"].op = "AddKey" /\ resp["p2"].status = StatusCreated
    /\ StoredIDs = <<"k1", "k3">>

\* C4: an AddKey call for an id that is stored changes neither the ids nor
\* the key material of the store, and it returns 409 "already exists"
C4_DuplicateAddRejected ==
    [][\A p \in Procs :
         (req[p].op = "AddKey" /\ pc'[p] # pc[p] /\ HasID(req[p].kid))
         => /\ backing' = backing /\ keysLen' = keysLen
            /\ pc'[p] = "idle"
               => Answered(resp'[p], "AddKey", StatusConflict, ErrAlreadyExists(req[p].kid))]_vars

\* AddKey("k1") was refused with 409 and k1 is stored
C4_Witness ==
    /\ HasID("k1")
    /\ \E p \in Procs : /\ Answered(resp[p], "AddKey", StatusConflict, ErrAlreadyExists("k1"))
                        /\ resp[p].kid = "k1"

\* C5: RemoveKey(id) on a store whose only key is id returns 400 "at least
\* one key must remain" and leaves the key and its material in place
C5_LastKeyProtected ==
    [][\A p \in Procs :
         (Returns(p, "RemoveKey") /\ keysLen = 1 /\ keys[1].Kid = req[p].kid)
         => /\ Answered(resp'[p], "RemoveKey", StatusBadRequest, ErrLastKey)
            /\ keys' = keys]_vars

\* RemoveKey("k1") was refused to protect the last key, k1, which is there
C5_Witness ==
    /\ keysLen = 1 /\ keys[1] = generateKeyPair("k1", 1)
    /\ \E p \in Procs : /\ Answered(resp[p], "RemoveKey", StatusBadRequest, ErrLastKey)
                        /\ resp[p].kid = "k1"

\* C6: RemoveKey(id) for an id that is not stored returns 404 "key not found"
\* in every state of the store, and 400 "at least one key must remain" is
\* returned only when id is stored and is the only key
C6_NotFoundBeforeLastKey ==
    [][\A p \in Procs :
         Returns(p, "RemoveKey")
         => /\ ~HasID(req[p].kid)
               => Answered(resp'[p], "RemoveKey", StatusNotFound, ErrKeyNotFound(req[p].kid))
            /\ Answered(resp'[p], "RemoveKey", StatusBadRequest, ErrLastKey)
               => HasID(req[p].kid) /\ keysLen = 1]_vars

\* a store without key id: no read of the store returns it
Absent(id) ==
    /\ \A i \in 1..Len(GetJWKS(keys)) : GetJWKS(keys)[i].kid # id
    /\ \A i \in 1..Len(StoredIDs) : StoredIDs[i] # id
    /\ GetKeyByID(keys, id) = 0
    /\ \A i \in RandomIndexes(keysLen) : keys[i].Kid # id

\* C7: when RemoveKey(id) has returned success no read returns id until
\* AddKey(id) returns success, after which GetJWKS and GetAllKeyIDs return
\* id; the reads answer with the store of the moment they hold the lock
C7_RemovedStaysAbsent ==
    [][/\ \A p \in Procs, id \in KeyIDs :
            (Returns(p, "RemoveKey") /\ req[p].kid = id /\ resp'[p].status = StatusOK)
            => Absent(id)'
       /\ \A id \in KeyIDs :
            (started /\ Absent(id) /\ ~Absent(id)')
            => \E p \in Procs : /\ Returns(p, "AddKey") /\ req[p].kid = id
                                /\ resp'[p].status = StatusCreated
       /\ \A p \in Procs :
            (Returns(p, "AddKey") /\ resp'[p].status = StatusCreated)
            => /\ \E i \in 1..Len(GetJWKS(keys')) : GetJWKS(keys')[i].kid = req[p].kid
               /\ \E i \in 1..Len(GetAllKeyIDs(keys')) : GetAllKeyIDs(keys')[i] = req[p].kid
       /\ \A p \in Procs :
            /\ Returns(p, "JWKS") => resp'[p].body.keys = GetJWKS(keys)
            /\ pc[p] = "GetAllKeyIDs_Body" /\ pc'[p] # pc[p]
               => loc'[p].keyIDs = GetAllKeyIDs(keys)]_vars

\* C8: in every reachable state GetAllKeyIDs and GetJWKS list the same ids
\* in the same order, the order in which the stored keys were generated
C8_InsertionOrder ==
    /\ [i \in 1..Len(GetJWKS(keys)) |-> GetJWKS(keys)[i].kid] = GetAllKeyIDs(keys)
    /\ \A i, j \in 1..keysLen : i < j => keys[i].PrivateKey < keys[j].PrivateKey

\* of k1, k2 the first was removed and then k3 was added
C8_Witness ==
    /\ StoredIDs = <<"k2", "k3">>
    /\ keys[1].PrivateKey = 2 /\ keys[2].PrivateKey = 3

\* the signature of token string tok verifies under public key pub
SignatureVerifies(tok, pub) ==
    RSAVerify(tok.header["alg"], pub, SigningString(tok.header, tok.claims), tok.sig)

\* C9: for the token GenerateToken returns, when the store was not changed
\* since the key was selected, GetKeyByID of the header kid finds a key, the
\* signature verifies under that key's public key, and iss is the configured
\* issuer
C9_IssuedTokenVerifies ==
    [][\A p \in Procs :
         (Returns(p, "GenerateToken") /\ resp'[p].status = StatusOK /\ ~loc[p].mutated)
         => LET tok == resp'[p].body.token
                i == GetKeyByID(keys, tok.header["kid"])
            IN /\ i # 0
               /\ SignatureVerifies(tok, keys[i].PublicKey)
               /\ "iss" \in DOMAIN tok.claims /\ tok.claims["iss"] = Str(Issuer)]_vars

\* ids: the elements of a sequence of ids
Elements(ids) == {ids[i] : i \in 1..Len(ids)}

\* C10: for the token GenerateInvalidToken returns, the header kid is the id
\* of a key that was stored when GetRandomKey selected, the signature does not
\* verify under the public key of any stored key with that id, and Introspect
\* of the token answers active=false
C10_InvalidTokenRejected ==
    [][/\ \A p \in Procs :
            (Returns(p, "GenerateInvalidToken") /\ resp'[p].status = StatusOK)
            => LET tok == resp'[p].body.token
               IN /\ tok.header["kid"] \in Elements(loc[p].pre)
                  /\ \A i \in 1..keysLen :
                        keys[i].Kid = tok.header["kid"]
                        => ~SignatureVerifies(tok, keys[i].PublicKey)
       /\ \A p \in Procs :
            (/\ Returns(p, "Introspect")
             /\ \E t \in issued : t.op = "GenerateInvalidToken" /\ t.token = req[p].token)
            => /\ resp'[p].status = StatusOK
               /\ resp'[p].body = ("active" :> Bool(FALSE))]_vars

\* C11: the token GenerateToken returns carries the caller's aud claim when
\* the request's claims have one, and the configured audience only when they
\* have none
C11_CallerAudienceWins ==
    [][\A p \in Procs :
         (Returns(p, "GenerateToken") /\ resp'[p].status = StatusOK)
         => LET tok == resp'[p].body.token
            IN /\ "aud" \in DOMAIN tok.claims
               /\ tok.claims["aud"] = IF "aud" \in DOMAIN req[p].claims
                                      THEN JSONEncodeValue(req[p].claims["aud"])
                                      ELSE Str(Audience)]_vars

\* the claim names GenerateToken writes itself
SystemClaims == {"iat", "exp", "iss", "aud"}

\* C12: in the token GenerateToken returns iss is the configured issuer, exp
\* is a time of the call plus the lifetime and iat a time of the call not
\* before it, whatever the caller's claims say, and every other caller claim
\* except aud is in the token with the caller's value
C12_SystemClaimsWin ==
    [][\A p \in Procs :
         (Returns(p, "GenerateToken") /\ resp'[p].status = StatusOK)
         => LET c == resp'[p].body.token.claims
                life == ExpiresInSeconds(req[p].expiresIn)
            IN /\ SystemClaims \subseteq DOMAIN c
               /\ c["iss"] = Str(Issuer)
               /\ c["iat"].t = "number" /\ c["exp"].t = "number"
               /\ \E t0 \in 1..now : /\ c["exp"].v = t0 + life
                                     /\ t0 <= c["iat"].v /\ c["iat"].v <= now
               /\ \A k \in DOMAIN req[p].claims \ SystemClaims :
                     k \in DOMAIN c /\ c[k] = JSONEncodeValue(req[p].claims[k])]_vars

\* GenerateToken has answered a request whose claims named iat, exp and iss
C12_Witness ==
    \E p \in Procs :
       /\ resp[p].op = "GenerateToken" /\ resp[p].status = StatusOK
       /\ resp[p].body.raw_request = JSONEncode(ClaimsMallory)
       /\ resp[p].body.token.claims["iss"] = Str(Issuer)
       /\ resp[p].body.token.claims["exp"] = Num(2)
       /\ resp[p].body.token.claims["role"] = Str("admin")

\* p is given an Introspect response in this step
Introspected(p) == resp'[p] # resp[p] /\ resp'[p].op = "Introspect"

\* C13: Introspect answers active=true only for a token whose kid GetKeyByID
\* found, whose signature verifies under the public key of a key pair with
\* that id (the one found, or one stored now), which has not expired, and
\* whose iss and aud are the configured issuer and audience
C13_ActiveOnlyIfVerified ==
    [][\A p \in Procs :
         (Introspected(p) /\ resp'[p].body["active"] = Bool(TRUE))
         => LET tok == req[p].token
            IN /\ pc[p] = "Introspect_Verify"
               /\ tok.header["kid"] = loc[p].found.Kid
               /\ \E kp \in {loc[p].found} \cup {keys[i] : i \in 1..keysLen} :
                     /\ kp.Kid = tok.header["kid"]
                     /\ SignatureVerifies(tok, kp.PublicKey)
               /\ "exp" \in DOMAIN tok.claims => now < tok.claims["exp"].v
               /\ "iss" \in DOMAIN tok.claims /\ tok.claims["iss"] = Str(Issuer)
               /\ "aud" \in DOMAIN tok.claims /\ tok.claims["aud"] = Str(Audience)]_vars

\* Introspect has answered active=true for a token issued to mallory
C13_Witness ==
    \E p \in Procs :
       /\ resp[p].op = "Introspect" /\ resp[p].status = StatusOK
       /\ resp[p].body["active"] = Bool(TRUE)
       /\ resp[p].body["sub"] = Str("mallory")
       /\ resp[p].body["aud"] = Str(Audience)

\* receipt t is that of a GenerateToken call whose claims named an audience
\* other than the configured one
ForeignAudienceReceipt(t) ==
    /\ t.op = "GenerateToken"
    /\ "aud" \in DOMAIN t.claims
    /\ t.claims["aud"] # GoString(Audience)

\* the key pair whose private key signed tok is stored
SigningKeyStored(tok) == \E i \in 1..keysLen : keys[i].PrivateKey = tok.sig.by

\* tok has an exp claim later than the clock
Unexpired(tok) == "exp" \in DOMAIN tok.claims /\ now < tok.claims["exp"].v

\* C14: Introspect answers active=true for a token GenerateToken returned to
\* a request whose aud claim differs from the configured audience, when the
\* token has not expired and the key pair that signed it is stored
C14_ForeignAudienceActive ==
    [][\A p \in Procs, t \in issued :
         (/\ Introspected(p) /\ req[p].token = t.token
          /\ ForeignAudienceReceipt(t)
          /\ Unexpired(t.token) /\ SigningKeyStored(t.token))
         => resp'[p].body["active"] = Bool(TRUE)]_vars

\* C15: Introspect answers active=true, with the token's sub, iss and aud in
\* the result, for a token GenerateToken returned, when the store has not
\* changed since GetRandomKey selected the signing key and the token has not
\* expired
C15_IssueThenIntrospect ==
    [][\A p \in Procs, t \in issued :
         (/\ Introspected(p) /\ req[p].token = t.token
          /\ t.op = "GenerateToken" /\ ~t.mutated
          /\ Unexpired(t.token))
         => LET c == t.token.claims
                body == resp'[p].body
            IN /\ resp'[p].status = StatusOK
               /\ body["active"] = Bool(TRUE)
               /\ \A k \in {"sub", "iss", "aud"} \cap DOMAIN c :
                     k \in DOMAIN body /\ body[k] = c[k]
               /\ {"iss", "aud"} \subseteq DOMAIN c]_vars

\* C16: the response to an Introspect request with the empty token string has
\* status 200 and a body that is exactly {active: false}
C16_EmptyTokenInactive ==
    \A p \in Procs :
       (resp[p].op = "Introspect" /\ resp[p].token = EmptyTokenString)
       => /\ resp[p].status = StatusOK
          /\ resp[p].body = ("active" :> Bool(FALSE))

\* Introspect has answered the empty token string while the store holds no key
C16_Witness ==
    \E p \in Procs :
       /\ resp[p].op = "Introspect" /\ resp[p].token = EmptyTokenString
       /\ resp[p].body = ("active" :> Bool(FALSE))
       /\ started /\ keysLen = 0

\* Introspect has answered the empty token string while the store holds keys
C16_WitnessStored ==
    \E p \in Procs :
       /\ resp[p].op = "Introspect" /\ resp[p].token = EmptyTokenString
       /\ resp[p].body = ("active" :> Bool(FALSE))
       /\ keysLen = 2

\* the response of p is that of an Introspect request that did not answer
\* active=true
FailedIntrospection(p) ==
    /\ resp[p].op = "Introspect"
    /\ ("active" \in DOMAIN resp[p].body => resp[p].body["active"] # Bool(TRUE))

\* C17: every Introspect response that is not active=true, whatever the token
\* and the reason, is the same response: status 200 and a body that is
\* exactly {active: false}
C17_FailuresAlike ==
    \A p \in Procs :
       FailedIntrospection(p)
       => /\ resp[p].status = StatusOK
          /\ resp[p].body = ("active" :> Bool(FALSE))

\* Introspect has refused a token whose signature verifies under the stored
\* key with its kid and whose only fault is its audience
C17_Witness ==
    \E p \in Procs :
       /\ FailedIntrospection(p)
       /\ resp[p].token = ForeignAudienceToken
       /\ keysLen > 0 /\ keys[1].Kid = "k1" /\ keys[1].PrivateKey = 1

\* Introspect has refused, in turn: a token of a foreign issuer, a malformed
\* string, a token with an unknown kid, a token of the wrong algorithm, a
\* token GenerateInvalidToken signed, and a token GenerateToken signed that
\* has expired
C17_WitnessIssuer ==
    \E p \in Procs :
       /\ FailedIntrospection(p) /\ resp[p].token = ForeignIssuerToken
       /\ keysLen > 0 /\ keys[1].Kid = "k1" /\ keys[1].PrivateKey = 1
C17_WitnessMalformed ==
    \E p \in Procs : FailedIntrospection(p) /\ resp[p].token = GarbageTokenString
C17_WitnessUnknownKid ==
    \E p \in Procs : FailedIntrospection(p) /\ resp[p].token = UnknownKidToken
C17_WitnessAlgorithm ==
    \E p \in Procs : FailedIntrospection(p) /\ resp[p].token = NoneAlgToken
C17_WitnessSignature ==
    \E p \in Procs, t \in issued :
       /\ FailedIntrospection(p) /\ resp[p].token = t.token
       /\ t.op = "GenerateInvalidToken"
C17_WitnessExpired ==
    \E p \in Procs, t \in issued :
       /\ FailedIntrospection(p) /\ resp[p].token = t.token
       /\ t.op = "GenerateToken" /\ ~t.mutated
       /\ t.token.claims["exp"].v <= now
       /\ keysLen = 1

\* the response of p is that of an Introspect request answered active=true
ActiveIntrospected(p) ==
    /\ resp[p].op = "Introspect"
    /\ "active" \in DOMAIN resp[p].body /\ resp[p].body["active"] = Bool(TRUE)

\* C18: an Introspect response with active=true has token_type "Bearer",
\* username equal to the token's sub claim when it has one, and every claim
\* of the token's payload under its name with the payload's value
C18_ActiveResultComplete ==
    \A p \in Procs :
       ActiveIntrospected(p)
       => LET c == resp[p].token.claims
              body == resp[p].body
          IN /\ "token_type" \in DOMAIN body /\ body["token_type"] = Str("Bearer")
             /\ "sub" \in DOMAIN c => "username" \in DOMAIN body /\ body["username"] = c["sub"]
             /\ \A k \in DOMAIN c : k \in DOMAIN body /\ body[k] = c[k]

\* the fields of an introspection response that no claim is promoted to
HandlerFields == {"active", "token_type", "username", "scope", "client_id"}

\* C19: in an Introspect response the fields active, token_type, username,
\* scope and client_id are those the handler wrote, whatever claims of these
\* names the token carries: active is the handler's boolean, and with
\* active=true token_type is "Bearer", username is the token's sub, and scope
\* and client_id, which the handler never writes, are absent; the fields sub,
\* aud, iss, jti, iat, exp and nbf, when present, are the token's claims of
\* these names
C19_WellKnownFieldsKept ==
    \A p \in Procs :
       resp[p].op = "Introspect"
       => LET c == resp[p].token.claims
              body == resp[p].body
          IN /\ "active" \in DOMAIN body
             /\ body["active"] \in {Bool(TRUE), Bool(FALSE)}
             /\ body["active"] = Bool(FALSE) => DOMAIN body = {"active"}
             /\ body["active"] = Bool(TRUE) =>
                   /\ "token_type" \in DOMAIN body /\ body["token_type"] = Str("Bearer")
                   /\ "username" \in DOMAIN body
                         => "sub" \in DOMAIN c /\ body["username"] = c["sub"]
                   /\ {"scope", "client_id"} \cap DOMAIN body = {}
                   /\ \A k \in (standardFields \ HandlerFields) \cap DOMAIN body :
                         k \in DOMAIN c /\ body[k] = c[k]

\* Introspect has answered active=true, token_type "Bearer", for a token that
\* carries the claims active=false, token_type "mac" and scope "read"
C19_Witness ==
    \E p \in Procs :
       /\ ActiveIntrospected(p)
       /\ resp[p].body["token_type"] = Str("Bearer")
       /\ {"active", "token_type", "scope"} \subseteq DOMAIN resp[p].token.claims
       /\ resp[p].token.claims["active"] = Bool(FALSE)
       /\ resp[p].token.claims["token_type"] = Str("mac")

\* RemoveKey has answered 200 for id kid, and no request has changed the
\* store since p began the request it is serving
RemovedBefore(p, kid) ==
    /\ pc[p] # "idle" /\ ~loc[p].mutated
    /\ \E q \in Procs : /\ resp[q].op = "RemoveKey" /\ resp[q].status = StatusOK
                        /\ resp[q].kid = kid

\* C20: once RemoveKey has answered 200 for an id, an Introspect request made
\* after it and before any further change of the store answers active=false
\* for a token whose kid is that id, and active=true for an unexpired token
\* GenerateToken returned whose kid is another id that is stored
C20_RemovedKeyInactive ==
    [][\A p \in Procs, kid \in KeyIDs :
         (Introspected(p) /\ RemovedBefore(p, kid))
         => LET tok == req[p].token
            IN /\ tok.header["kid"] = kid
                  => resp'[p].body["active"] = Bool(FALSE)
               /\ (/\ tok.header["kid"] # kid /\ HasID(tok.header["kid"])
                   /\ Unexpired(tok)
                   /\ \E t \in issued : t.op = "GenerateToken" /\ t.token = tok)
                  => resp'[p].body["active"] = Bool(TRUE)]_vars

\* C21: the token GenerateToken returns has the id of the key pair
\* GetRandomKey selected in its header and as key_id, and is signed with that
\* key pair's private key, whatever AddKey and RemoveKey calls took effect
\* after the selection
C21_SelectedKeySigns ==
    [][\A p \in Procs :
         (Returns(p, "GenerateToken") /\ resp'[p].status = StatusOK)
         => LET tok == resp'[p].body.token
                kp == loc[p].found
            IN /\ tok.header["kid"] = kp.Kid
               /\ tok.sig.by = kp.PrivateKey
               /\ resp'[p].body.key_id = kp.Kid]_vars

\* the positions at which a handler runs the body of a Manager method that
\* writes the store, and of one that reads it
WriterBodies == {"AddKey_Check", "AddKey_Generate", "RemoveKey_Body"}
ReaderBodies == {"GetRandomKey_Body", "GetKeyByID_Body", "GetJWKS_Body",
                 "GetAllKeyIDs_Body", "GetKeyCount_Body"}

\* the mutual exclusion of sync.RWMutex: a writer excludes every reader
Exclusion == mu.writer # NoProc => mu.readers = {}

ReadOnlyOps == {"GenerateToken", "GenerateInvalidToken", "Introspect", "JWKS", "Keys"}

\* the handler of p takes this step
StepOf(p) == pc'[p] # pc[p] \/ resp'[p] # resp[p]

RandomReturns(p) == pc[p] = "GetRandomKey_Body" /\ pc'[p] # pc[p]

\* C24: GetRandomKey fails exactly when the store holds no key; otherwise it
\* returns a key pair the store holds when it is called, and each key pair
\* of the store is one it can return
C24_RandomKeyStored ==
    [][\A p \in Procs :
         /\ RandomReturns(p)
               => /\ keysLen = 0 <=> loc'[p].ptr = NilPtr
                  /\ keysLen = 0 <=> (/\ resp'[p].status = StatusInternalServerError
                                      /\ resp'[p].body = ErrorBody(ErrSigningKey))
                  /\ keysLen > 0 => \E i \in 1..keysLen :
                                       /\ loc'[p].ptr = LivePtr(i)
                                       /\ Deref(loc'[p].ptr) = keys[i]
         /\ pc[p] = "GetRandomKey_Body"
               => \A i \in 1..keysLen :
                     ENABLED (GetRandomKey_Body(p) /\ loc'[p].ptr = LivePtr(i))]_vars

\* GetRandomKey has returned the second of two stored keys
C24_Witness ==
    \E p \in Procs :
       /\ pc[p] \in {"GenerateToken_Claims", "GenerateInvalidToken_Key"}
       /\ keysLen = 2 /\ loc[p].ptr = LivePtr(2) /\ ~loc[p].mutated
       /\ loc[p].found = keys[2]

\* GetRandomKey has failed on a store without keys
C24_WitnessEmpty ==
    \E p \in Procs :
       /\ resp[p].op = "GenerateToken" /\ resp[p].status = StatusInternalServerError
       /\ started /\ keysLen = 0

\* the requests that return a token
TokenOps == {"GenerateToken", "GenerateInvalidToken"}

\* C25: a GenerateToken or GenerateInvalidToken call whose GetRandomKey finds
\* the store without keys answers 500 "Failed to get signing key", hands out
\* no token and leaves the store without keys; a call whose GetRandomKey
\* finds a key, as after an AddKey on that store, answers 200 with a token
C25_EmptyStoreNoToken ==
    [][\A p \in Procs :
         (req[p].op \in TokenOps /\ pc[p] # "idle" /\ pc'[p] = "idle")
         => IF pc[p] = "GetRandomKey_Body" /\ keysLen = 0
            THEN /\ resp'[p].op = req[p].op
                 /\ resp'[p].status = StatusInternalServerError
                 /\ resp'[p].body = [error |-> "Failed to get signing key"]
                 /\ issued' = issued
                 /\ keysLen' = 0 /\ backing' = backing
            ELSE /\ resp'[p].op = req[p].op
                 /\ resp'[p].status = StatusOK
                 /\ resp'[p].body.token.form = "jwt"
                 /\ resp'[p].body.token \in {t.token : t \in issued'}
                 /\ loc[p].pre # <<>>]_vars

\* GenerateInvalidToken has failed for want of a signing key on a store
\* without keys
C25_Witness ==
    \E p \in Procs :
       /\ resp[p].op = "GenerateInvalidToken"
       /\ resp[p].status = StatusInternalServerError
       /\ "token" \notin DOMAIN resp[p].body
       /\ started /\ keysLen = 0 /\ issued = {}

\* GenerateToken has returned a token signed by the one key AddKey added to a
\* store that started without keys
C25_WitnessRecovered ==
    \E p, q \in Procs :
       /\ resp[p].op = "GenerateToken" /\ resp[p].status = StatusOK
       /\ resp[q].op = "AddKey" /\ resp[q].status = StatusCreated
       /\ keysLen = 1 /\ nextKey = 2
       /\ resp[p].body.token.sig.by = keys[1].PrivateKey

\* C26: GenerateToken and GenerateInvalidToken answer with expires_in equal
\* to the request's expiresIn when it has one, zero and negative values
\* included, and to 3600 when it has none, and the token's exp is a time of
\* the call plus that number of seconds
C26_LifetimeAsGiven ==
    [][\A p \in Procs :
         (req[p].op \in TokenOps /\ Returns(p, req[p].op) /\ resp'[p].status = StatusOK)
         => LET life == IF req[p].expiresIn.set THEN req[p].expiresIn.v ELSE 3600
                c == resp'[p].body.token.claims
            IN /\ resp'[p].body.expires_in = life
               /\ "exp" \in DOMAIN c /\ c["exp"].t = "number"
               /\ \E t0 \in 1..now : c["exp"].v = t0 + life]_vars

\* GenerateToken has answered a request with a negative expiresIn, and
\* GenerateInvalidToken one with expiresIn zero
C26_Witness ==
    \E p \in Procs :
       /\ resp[p].op = "GenerateToken" /\ resp[p].status = StatusOK
       /\ resp[p].body.expires_in = -1
       /\ resp[p].body.token.claims["exp"].v < resp[p].body.token.claims["iat"].v
C26_WitnessZero ==
    \E p \in Procs :
       /\ resp[p].op = "GenerateInvalidToken" /\ resp[p].status = StatusOK
       /\ resp[p].body.expires_in = 0

\* C27: when GenerateKeys returns, on a new Manager or on one that holds
\* keys, the store holds one key pair per element of keyIDs, in that order,
\* each with fresh key material of its own, and no other; with no keyIDs it
\* holds no key
C27_InitializeReplaces ==
    [][\A keyIDs \in InitialKeyIDs :
         (GenerateKeys(keyIDs) \/ GenerateKeysAgain(keyIDs))
         => /\ keysLen' = Len(keyIDs)
            /\ \A i \in 1..Len(keyIDs) :
                  /\ backing'[i].Kid = keyIDs[i]
                  /\ backing'[i].PublicKey = PublicOf(backing'[i].PrivateKey)
                  /\ \A j \in 1..keysLen : backing'[i].PrivateKey # keys[j].PrivateKey
                  /\ \A j \in 1..Len(keyIDs) :
                        j # i => backing'[j].PrivateKey # backing'[i].PrivateKey
            /\ keyIDs = <<>> => keysLen' = 0]_vars

\* GenerateKeys has replaced a store of two keys by one key
C27_Witness ==
    /\ started /\ keysLen = 1 /\ nextKey = 4
    /\ keys[1].PrivateKey = 3
    /\ \A p \in Procs : resp[p] = NoResp

\* GenerateKeys with no keyIDs has emptied a store
C27_WitnessEmptied ==
    /\ started /\ keysLen = 0 /\ nextKey > 1

\* C28: the raw_request of a GenerateToken or GenerateInvalidToken response
\* is the claim set of the request, an empty claim set included
C28_RawRequestEchoes ==
    [][\A p \in Procs :
         (req[p].op \in TokenOps /\ Returns(p, req[p].op) /\ resp'[p].status = StatusOK)
         => resp'[p].body.raw_request = JSONEncode(req[p].claims)]_vars

\* C29: in every token GenerateToken or GenerateInvalidToken returns, exp is
\* iat plus the effective lifetime, whenever the clock advances during the call
C29_ExpIsIatPlusLifetime ==
    [][\A p \in Procs :
         (req[p].op \in TokenOps /\ Returns(p, req[p].op) /\ resp'[p].status = StatusOK)
         => LET c == resp'[p].body.token.claims
            IN c["exp"].v - c["iat"].v = resp'[p].body.expires_in]_vars

\* C30: the claim map of the token GenerateInvalidToken returns is the one
\* GenerateToken builds for the same claim set, the empty one included, the
\* same lifetime and the same clock readings, and its header is that of a
\* GenerateToken token for the selected key
C30_InvalidClaimsAsIssue ==
    [][\A p \in Procs :
         (Returns(p, "GenerateInvalidToken") /\ resp'[p].status = StatusOK)
         => LET tok == resp'[p].body.token
                c == tok.claims
            IN /\ c = JSONEncode(JWTClaims(ClaimsOrDefault(req[p].claims, DefaultClaims),
                                           c["iat"].v, c["exp"].v))
               /\ \E t0 \in 1..now : /\ c["exp"].v = t0 + ExpiresInSeconds(req[p].expiresIn)
                                     /\ t0 <= c["iat"].v /\ c["iat"].v <= now
               /\ tok.header = NewHeader(loc[p].found.Kid)]_vars

\* the response p is given in this step is an Introspect response with this
\* value of active
Reported(p, active) == Introspected(p) /\ resp'[p].body["active"] = Bool(active)

\* C31: Introspect answers active=false for every token whose header has no
\* kid or whose alg is not RS256, also when the signature verifies, with the
\* alg the header declares, under the public key of the stored key pair the
\* kid names
C31_OnlyRS256Active ==
    [][\A p \in Procs :
         LET header == resp'[p].token.header
         IN (/\ Introspected(p)
             /\ \/ "kid" \notin DOMAIN header
                \/ "alg" \notin DOMAIN header
                \/ header["alg"] # "RS256")
            => resp'[p].body["active"] = Bool(FALSE)]_vars

\* the positions at which a handler waits for the read lock
ReaderWaits == {"GetRandomKey_RLock", "GetKeyByID_RLock", "GetJWKS_RLock",
                "GetAllKeyIDs_RLock", "GetKeyCount_RLock"}

\* C32: no handler generates an RSA key pair while it holds the write lock,
\* so no call of GetKeyByID, GetRandomKey, GetAllKeyIDs, GetKeyCount or
\* GetJWKS waits for the read lock for as long as a key generation takes
C32_GenerationOutsideLock ==
    \A p \in Procs :
       pc[p] = "AddKey_Generate"
       => /\ mu.writer # p
          /\ \A q \in Procs : pc[q] \in ReaderWaits => CanRLock

\* sequence s without its i-th element
Without(s, i) == SubSeq(s, 1, i - 1) \o SubSeq(s, i + 1, Len(s))
\* what GetKeyByID returns for kid on the stored keys s (the zero key pair
\* stands for "key not found")
Got(s, kid) == IF GetKeyByID(s, kid) = 0 THEN ZeroKeyPair ELSE s[GetKeyByID(s, kid)]

\* C33: a RemoveKey call that succeeds takes exactly one key pair, one with
\* the id asked for, out of the stored sequence; every other key pair keeps
\* its id, its key material and its place relative to the others, so
\* GetKeyByID of any other id returns the same key pair before and after.
\* Hence removing the id a successful AddKey call has just added, when
\* RemoveKey does not refuse to (the added key is not the only one), gives
\* back the sequence stored before the AddKey call
C33_RemoveExactlyOne ==
    [][\A p \in Procs :
         LET before == keys
             after == keys'
             kid == req[p].kid
         IN /\ (Returns(p, "RemoveKey") /\ resp'[p].status = StatusOK)
               => /\ \E i \in 1..Len(before) :
                        before[i].Kid = kid /\ after = Without(before, i)
                  /\ \A other \in KeyIDs \ {kid} : Got(after, other) = Got(before, other)
            /\ (Returns(p, "AddKey") /\ resp'[p].status = StatusCreated)
               => LET i == IndexOfKid(after, kid)
                      r == SliceRemove(backing', keysLen', i)
                  IN /\ i # 0
                     /\ ~AtLeastOneMustRemain(Len(after))
                        => SubSeq(r.backing, 1, r.keysLen) = before]_vars

\* a third key was added to k1, k2 and removed again, and k1 was removed from
\* the head of the sequence: k2 is stored with the key material it was
\* generated with
C33_Witness ==
    /\ \E p \in Procs : Answered(resp[p], "RemoveKey", StatusOK, KeyRemoved) /\ resp[p].kid = "k1"
    /\ StoredIDs = <<"k2">> /\ keys[1].PrivateKey = 2
    /\ nextKey = 4

\* C34: whatever AddKey and RemoveKey calls run beside it, Introspect verifies
\* the signature of a token with the public key of the key pair GetKeyByID
\* found for the token's kid, never with the public key of a key pair that
\* has another id
C34_VerifiesWithKeyFound ==
    [][\A p \in Procs :
         (pc[p] = "Introspect_Verify" /\ pc'[p] # pc[p])
         => LET keyPair == Deref(loc[p].ptr)
            IN /\ loc[p].found.Kid = req[p].token.header["kid"]
               /\ keyPair.Kid = req[p].token.header["kid"]
               /\ keyPair.PublicKey = loc[p].found.PublicKey]_vars

\* C35: in every response of Handler.Keys, whatever AddKey and RemoveKey calls
\* run beside it, total_keys is the number of entries of available_keys
C35_KeysResponseConsistent ==
    [][\A p \in Procs :
         Returns(p, "Keys")
         => resp'[p].body.total_keys = Len(resp'[p].body.available_keys)]_vars

\* the last key management request q was answered is an AddKey call that
\* added id kid
ReAdded(q, kid) == Answered(resp[q], "AddKey", StatusCreated, KeyAdded) /\ resp[q].kid = kid

\* C36: the key pair a successful AddKey call stores has key material that was
\* never generated before, also when the id was stored and removed earlier:
\* no key pair of the store's array and no token a client holds has it.  An
\* Introspect request made after the AddKey call has returned, with no change
\* of the store since, answers active=false for every token with that kid that
\* is not signed with the new key, so for every token signed with an earlier
\* key of the id
C36_ReAddedKeyIsFresh ==
    [][\A p, q \in Procs :
         LET after == keys'
             tok == req[p].token
         IN /\ (Returns(q, "AddKey") /\ resp'[q].status = StatusCreated)
               => LET kp == Got(after, req[q].kid)
                  IN /\ kp.Kid = req[q].kid
                     /\ kp.PrivateKey >= nextKey
                     /\ \A i \in 1..Cap : backing[i].PrivateKey # kp.PrivateKey
                     /\ \A t \in IssuedTokens : t.sig.by # kp.PrivateKey
            /\ (/\ Introspected(p) /\ pc[p] # "idle" /\ ~loc[p].mutated
                /\ ReAdded(q, tok.header["kid"])
                /\ tok.sig.by # Got(keys, tok.header["kid"]).PrivateKey)
               => resp'[p].body["active"] = Bool(FALSE)]_vars

\* k1 was removed and added again, and Introspect has answered active=false
\* for an unexpired token GenerateToken had signed with the first key of k1
C36_Witness ==
    \E p, q \in Procs, t \in issued :
       /\ ReAdded(q, "k1")
       /\ Got(keys, "k1").PrivateKey = 3
       /\ t.op = "GenerateToken" /\ Unexpired(t.token)
       /\ t.token.header["kid"] = "k1" /\ t.token.sig.by = 1
       /\ resp[p].op = "Introspect" /\ resp[p].token = t.token
       /\ resp[p].body["active"] = Bool(FALSE)

\* the Introspect request for such a token was made after k1 had been added
\* again, and GetKeyByID has found the new key
C36_WitnessAfter ==
    \E p, q \in Procs, t \in issued :
       /\ ReAdded(q, "k1")
       /\ pc[p] = "Introspect_Verify" /\ ~loc[p].mutated
       /\ loc[p].found.PrivateKey = 3
       /\ t.op = "GenerateToken" /\ Unexpired(t.token)
       /\ req[p].token = t.token
       /\ t.token.header["kid"] = "k1" /\ t.token.sig.by = 1

\* C37: Introspect answers active=true for a token GenerateToken returned with
\* iat t and expires_in L only while the clock is before t + L, and never when
\* L is zero or negative; the clock never goes back, so once the clock has
\* reached t + L and the token was reported inactive, it is never reported
\* active again
C37_ActiveOnlyBeforeExpiry ==
    [][/\ now' >= now
       /\ \A p \in Procs, t \in issued :
            (Reported(p, TRUE) /\ resp'[p].token = t.token /\ t.op = "GenerateToken")
            => /\ t.expiresIn > 0
               /\ now < t.token.claims["iat"].v + t.expiresIn]_vars

\* C38: when every handler keeps running and the mutex lets no caller starve,
\* every request that calls a Manager method is answered: its handler takes
\* the lock, runs the method and returns; a handler that has returned, with a
\* success or with an error, holds the lock no more; and whenever a request is
\* being served some handler is not kept waiting for the lock
C38_EveryCallReturns ==
    /\ [](\A p \in Procs : pc[p] = "idle" => mu.writer # p /\ p \notin mu.readers)
    /\ [](\A p \in Procs : pc[p] # "idle" => \E q \in Procs : pc[q] # "idle" /\
             /\ pc[q] \in ReaderWaits => CanRLock
             /\ pc[q] \in {"AddKey_Lock", "RemoveKey_Lock"} => CanLock)
    /\ \A p \in Procs : (pc[p] # "idle") ~> (pc[p] = "idle")

\* AddKey has returned the error of a duplicate id and released the lock
\* while a reader was waiting for it
C38_Witness ==
    \E p, q \in Procs :
       /\ pc[p] = "idle" /\ resp[p].op = "AddKey" /\ resp[p].status = StatusConflict
       /\ mu.writer = NoProc
       /\ pc[q] \in ReaderWaits

====
